---- MODULE Spec2Model ----
(***************************************************************************)
(* The workflow interpreter of proj/dsl/dsl_executor.py (DSLExecutor):     *)
(* the step registry, the expression resolver and the step interpreter,    *)
(* as a state machine over the executor's dsl_context and its call stack.  *)
(*                                                                         *)
(* Texts are sequences of tokens (one TLA+ string per lexical token, white *)
(* space dropped); "{" and "}" are always tokens of their own, so that the *)
(* placeholder pattern of _resolve_placeholders scans tokens as it scans   *)
(* characters.  Python values are tagged records [t |-> tag, v |-> ...].   *)
(***************************************************************************)
EXTENDS Integers, Sequences, FiniteSets, TLC

----------------------------------------------------------------------------
(* Python values *)

NoneV == [t |-> "none", v |-> 0]
Missing == [t |-> "missing", v |-> 0]
IntV(n) == [t |-> "int", v |-> n]
BoolV(b) == [t |-> "bool", v |-> b]
StrV(s) == [t |-> "str", v |-> s]
ListV(xs) == [t |-> "list", v |-> xs]
DictV(kvs) == [t |-> "dict", v |-> kvs]
RangeV(n) == [t |-> "range", v |-> n]
BuiltinV(f) == [t |-> "builtin", v |-> f]
DummyV == [t |-> "dummy", v |-> 0]
Exc(kind) == [t |-> "exc", v |-> kind]

\* A one-token string, as used for names and keys.
NameV(s) == StrV(<<s>>)

IsExc(x) == x.t = "exc"

\* bool(x) of a Python value
Truthy(x) ==
    CASE x.t = "none" -> FALSE
      [] x.t = "missing" -> FALSE
      [] x.t = "bool" -> x.v
      [] x.t = "int" -> x.v # 0
      [] x.t = "range" -> x.v > 0
      [] x.t \in {"str", "list", "dict"} -> Len(x.v) > 0
      [] OTHER -> TRUE

\* dict.get(key, default) on a step or loop mapping: a sequence of <<key, value>>
HasKey(kvs, k) == \E i \in 1..Len(kvs) : kvs[i][1] = k

Lookup(kvs, k) == kvs[CHOOSE i \in 1..Len(kvs) : kvs[i][1] = k][2]

DictGet(d, k, default) == IF HasKey(d.v, k) THEN Lookup(d.v, k) ELSE default

\* {**a, **b}
Merge(a, b) ==
    [k \in (DOMAIN a) \cup (DOMAIN b) |-> IF k \in DOMAIN b THEN b[k] ELSE a[k]]

\* {**a, k: x}
Bind(a, k, x) == [n \in (DOMAIN a) \cup {k} |-> IF n = k THEN x ELSE a[n]]

EmptyDict == [k \in {} |-> NoneV]

----------------------------------------------------------------------------
(* str() and repr() of a value, in tokens *)

Numerals ==
    << "0", "1", "2", "3", "4", "5", "6", "7", "8", "9", "10",
       "11", "12", "13", "14", "15", "16", "17", "18", "19", "20",
       "21", "22", "23", "24", "25", "26", "27", "28", "29", "30",
       "31", "32", "33", "34", "35", "36", "37", "38", "39", "40" >>

IsNumeral(tok) == \E i \in 1..Len(Numerals) : Numerals[i] = tok

NumeralValue(tok) == (CHOOSE i \in 1..Len(Numerals) : Numerals[i] = tok) - 1

Numeral(n) == Numerals[n + 1]

InSeq(x, s) == \E i \in 1..Len(s) : s[i] = x

RECURSIVE Repr(_)
RECURSIVE ReprItems(_, _)
RECURSIVE ReprPairs(_, _)

ReprItems(xs, i) ==
    IF i > Len(xs) THEN <<>>
    ELSE (IF i > 1 THEN <<",">> ELSE <<>>) \o Repr(xs[i]) \o ReprItems(xs, i + 1)

ReprPairs(kvs, i) ==
    IF i > Len(kvs) THEN <<>>
    ELSE (IF i > 1 THEN <<",">> ELSE <<>>)
         \o Repr(NameV(kvs[i][1])) \o <<":">> \o Repr(kvs[i][2])
         \o ReprPairs(kvs, i + 1)

Repr(x) ==
    CASE x.t = "int" -> <<Numeral(x.v)>>
      [] x.t = "none" -> <<"None">>
      [] x.t = "bool" -> IF x.v THEN <<"True">> ELSE <<"False">>
      [] x.t = "str" ->
            IF InSeq("'", x.v) /\ ~InSeq("\"", x.v)
            THEN <<"\"">> \o x.v \o <<"\"">>
            ELSE <<"'">> \o x.v \o <<"'">>
      [] x.t = "list" -> <<"[">> \o ReprItems(x.v, 1) \o <<"]">>
      [] x.t = "dict" -> <<"{">> \o ReprPairs(x.v, 1) \o <<"}">>
      [] x.t = "range" -> <<"range", "(", "0", ",", Numeral(x.v), ")">>
      [] x.t = "builtin" -> <<"<built-in function", x.v, ">">>
      [] OTHER -> <<"<object>">>

PyStr(x) == IF x.t = "str" THEN x.v ELSE Repr(x)

----------------------------------------------------------------------------
(* eval(): the Python expressions the plans use, parsed from tokens.       *)
(* Subset: integer, string, list and dict literals, None/True/False,       *)
(* names, subscripts x[i], calls f(args), *, +, and one comparison.        *)
(* A parse environment e is [toks, sc, dry]; with dry = TRUE only the      *)
(* syntax is checked (Python compiles the whole expression before it runs  *)
(* any of it), and no runtime error is raised.                             *)

Punct ==
    { "{", "}", "[", "]", "(", ")", ",", ":", "'", "\"", "*", "+", ">", "<",
      "==", ".", "<Error resolving", "<Unresolved", "<built-in function",
      "<object>", "<EOF>" }

Keywords == {"None", "True", "False"}

\* names eval finds in builtins when the scope does not bind them
Builtins == {"len", "range", "abs"}

IsName(tok) == tok \notin Punct /\ tok \notin Keywords /\ ~IsNumeral(tok)

Env(toks, sc, dry) == [toks |-> toks, sc |-> sc, dry |-> dry]

Tok(e, i) == IF i <= Len(e.toks) THEN e.toks[i] ELSE "<EOF>"

Ok(val, pos) == [ok |-> TRUE, val |-> val, pos |-> pos]

Fail(kind) == [ok |-> FALSE, val |-> Exc(kind), pos |-> 0]

\* first index j > i with toks[j] = tok, or 0
FirstAfter(toks, i, tok) ==
    IF \E j \in (i + 1)..Len(toks) : toks[j] = tok
    THEN CHOOSE j \in (i + 1)..Len(toks) :
            /\ toks[j] = tok
            /\ \A k \in (i + 1)..(j - 1) : toks[k] # tok
    ELSE 0

\* x[k]
Subscript(x, k) ==
    CASE x.t = "list" /\ k.t = "int" ->
            IF k.v >= 0 /\ k.v < Len(x.v) THEN x.v[k.v + 1] ELSE Exc("IndexError")
      [] x.t = "list" -> Exc("TypeError")
      [] x.t = "dict" /\ k.t = "str" ->
            IF Len(k.v) = 1 /\ HasKey(x.v, k.v[1])
            THEN Lookup(x.v, k.v[1]) ELSE Exc("KeyError")
      [] x.t = "dict" -> Exc("KeyError")
      [] OTHER -> Exc("TypeError")

\* f(*args) for the builtins
Apply(f, args) ==
    CASE f.t = "builtin" /\ f.v = "len" /\ Len(args) = 1 ->
            IF args[1].t \in {"list", "dict", "str"} THEN IntV(Len(args[1].v))
            ELSE IF args[1].t = "range" THEN IntV(args[1].v)
            ELSE Exc("TypeError")
      [] f.t = "builtin" /\ f.v = "abs" /\ Len(args) = 1 ->
            IF args[1].t = "int" THEN args[1] ELSE Exc("TypeError")
      [] f.t = "builtin" /\ f.v = "range" /\ Len(args) = 1 ->
            IF args[1].t = "int" THEN RangeV(args[1].v) ELSE Exc("TypeError")
      [] f.t = "builtin" /\ f.v = "range" /\ Len(args) = 2 ->
            IF args[1] = IntV(0) /\ args[2].t = "int" THEN RangeV(args[2].v)
            ELSE Exc("TypeError")
      [] OTHER -> Exc("TypeError")

\* A faulty Mul: the operands are added.
MulAsAdd(a, b) ==
    IF a.t = "int" /\ b.t = "int" THEN IntV(a.v + b.v) ELSE Exc("TypeError")

Mul(a, b) ==
    IF a.t = "int" /\ b.t = "int" THEN IntV(a.v * b.v) ELSE Exc("TypeError")

Add(a, b) ==
    CASE a.t = "int" /\ b.t = "int" -> IntV(a.v + b.v)
      [] a.t = "list" /\ b.t = "list" -> ListV(a.v \o b.v)
      [] a.t = "str" /\ b.t = "str" -> StrV(a.v \o b.v)
      [] OTHER -> Exc("TypeError")

Compare(op, a, b) ==
    CASE op = "==" -> BoolV(a = b)
      [] a.t = "int" /\ b.t = "int" -> BoolV(IF op = ">" THEN a.v > b.v ELSE a.v < b.v)
      [] OTHER -> Exc("TypeError")

\* the result of a runtime operation: nothing is computed on a dry run
Run(e, val, pos) ==
    IF e.dry THEN Ok(DummyV, pos)
    ELSE IF IsExc(val) THEN Fail(val.v) ELSE Ok(val, pos)

RECURSIVE Parse(_, _, _, _)
\* The recursive-descent parser, one grammar rule per mode; i is the
\* position to parse from, r the result so far (the left operand of a
\* `tail` rule, the elements read of a display).
\*   expr    := arith [(">" | "<" | "==") arith]
\*   arith   := term {"+" term}
\*   term    := postfix {"*" postfix}
\*   postfix := atom {"[" expr "]" | "(" items ")"}
\*   atom    := number | None | True | False | string | name
\*              | "(" expr ")" | "[" items "]" | "{" pairs "}"
\*   items   := [expr {"," expr}]        pairs := [expr ":" expr {"," ...}]
Parse(e, i, mode, r) ==
    CASE mode = "expr" ->
            LET a == Parse(e, i, "arith", r) IN
            IF ~a.ok THEN a
            ELSE IF Tok(e, a.pos) \in {">", "<", "=="}
                 THEN LET b == Parse(e, a.pos + 1, "arith", r) IN
                      IF ~b.ok THEN b
                      ELSE Run(e, Compare(Tok(e, a.pos), a.val, b.val), b.pos)
                 ELSE a
      [] mode = "arith" -> Parse(e, i, "arith_tail", Parse(e, i, "term", r))
      [] mode = "arith_tail" ->
            IF ~r.ok THEN r
            ELSE IF Tok(e, r.pos) = "+"
                 THEN LET b == Parse(e, r.pos + 1, "term", r) IN
                      IF ~b.ok THEN b
                      ELSE Parse(e, i, "arith_tail", Run(e, Add(r.val, b.val), b.pos))
                 ELSE r
      [] mode = "term" -> Parse(e, i, "term_tail", Parse(e, i, "postfix", r))
      [] mode = "term_tail" ->
            IF ~r.ok THEN r
            ELSE IF Tok(e, r.pos) = "*"
                 THEN LET b == Parse(e, r.pos + 1, "postfix", r) IN
                      IF ~b.ok THEN b
                      ELSE Parse(e, i, "term_tail", Run(e, Mul(r.val, b.val), b.pos))
                 ELSE r
      [] mode = "postfix" -> Parse(e, i, "postfix_tail", Parse(e, i, "atom", r))
      [] mode = "postfix_tail" ->
            IF ~r.ok THEN r
            ELSE CASE Tok(e, r.pos) = "[" ->
                        LET k == Parse(e, r.pos + 1, "expr", r) IN
                        IF ~k.ok THEN k
                        ELSE IF Tok(e, k.pos) # "]" THEN Fail("SyntaxError")
                        ELSE Parse(e, i, "postfix_tail",
                                   Run(e, Subscript(r.val, k.val), k.pos + 1))
                   [] Tok(e, r.pos) = "(" ->
                        LET a == Parse(e, r.pos + 1, "items", Ok(<<>>, 0)) IN
                        IF ~a.ok THEN a
                        ELSE IF Tok(e, a.pos) # ")" THEN Fail("SyntaxError")
                        ELSE Parse(e, i, "postfix_tail",
                                   Run(e, Apply(r.val, a.val), a.pos + 1))
                   [] OTHER -> r
      [] mode = "items" ->
            \* r.val: the values read so far; stops before the closing token
            IF Tok(e, i) \in {"]", ")"} THEN Ok(r.val, i)
            ELSE LET x == Parse(e, i, "expr", r) IN
                 IF ~x.ok THEN x
                 ELSE IF Tok(e, x.pos) = ","
                      THEN Parse(e, x.pos + 1, "items", Ok(Append(r.val, x.val), 0))
                      ELSE Ok(Append(r.val, x.val), x.pos)
      [] mode = "pairs" ->
            IF Tok(e, i) = "}" THEN Ok(r.val, i)
            ELSE LET k == Parse(e, i, "expr", r) IN
                 IF ~k.ok THEN k
                 ELSE IF Tok(e, k.pos) # ":" THEN Fail("SyntaxError")
                 ELSE LET x == Parse(e, k.pos + 1, "expr", r)
                          key == IF k.val.t = "str" /\ Len(k.val.v) = 1
                                 THEN k.val.v[1] ELSE "?"
                      IN IF ~x.ok THEN x
                         ELSE IF Tok(e, x.pos) = ","
                              THEN Parse(e, x.pos + 1, "pairs",
                                         Ok(Append(r.val, <<key, x.val>>), 0))
                              ELSE Ok(Append(r.val, <<key, x.val>>), x.pos)
      [] mode = "atom" ->
            LET tok == Tok(e, i) IN
            CASE IsNumeral(tok) -> Ok(IntV(NumeralValue(tok)), i + 1)
              [] tok = "None" -> Ok(NoneV, i + 1)
              [] tok = "True" -> Ok(BoolV(TRUE), i + 1)
              [] tok = "False" -> Ok(BoolV(FALSE), i + 1)
              [] tok \in {"'", "\""} ->
                    LET j == FirstAfter(e.toks, i, tok) IN
                    IF j = 0 THEN Fail("SyntaxError")
                    ELSE Ok(StrV(SubSeq(e.toks, i + 1, j - 1)), j + 1)
              [] tok = "(" ->
                    LET x == Parse(e, i + 1, "expr", r) IN
                    IF ~x.ok THEN x
                    ELSE IF Tok(e, x.pos) = ")" THEN Ok(x.val, x.pos + 1)
                    ELSE Fail("SyntaxError")
              [] tok = "[" ->
                    LET x == Parse(e, i + 1, "items", Ok(<<>>, 0)) IN
                    IF ~x.ok THEN x
                    ELSE IF Tok(e, x.pos) = "]" THEN Ok(ListV(x.val), x.pos + 1)
                    ELSE Fail("SyntaxError")
              [] tok = "{" ->
                    LET x == Parse(e, i + 1, "pairs", Ok(<<>>, 0)) IN
                    IF ~x.ok THEN x
                    ELSE IF Tok(e, x.pos) = "}" THEN Ok(DictV(x.val), x.pos + 1)
                    ELSE Fail("SyntaxError")
              [] IsName(tok) ->
                    IF e.dry THEN Ok(DummyV, i + 1)
                    ELSE IF tok \in DOMAIN e.sc THEN Ok(e.sc[tok], i + 1)
                    ELSE IF tok \in Builtins THEN Ok(BuiltinV(tok), i + 1)
                    ELSE Fail("NameError")
              [] OTHER -> Fail("SyntaxError")

ParseExpr(e) == Parse(e, 1, "expr", Ok(NoneV, 0))

\* eval(expression, globals, sc): the value, or Exc(kind) when it raises
Complete(toks, parsed) == parsed.ok /\ parsed.pos = Len(toks) + 1

Compiles(toks) == Complete(toks, ParseExpr(Env(toks, EmptyDict, TRUE)))

Eval(toks, sc) ==
    IF ~Compiles(toks) THEN Exc("SyntaxError")
    ELSE ParseExpr(Env(toks, sc, FALSE)).val


----------------------------------------------------------------------------
(* Expression resolver *)

ErrorToken(expression) == <<"<Error resolving">> \o expression \o <<">">>

UnresolvedToken(expression) == <<"<Unresolved">> \o expression \o <<">">>

\* resolve_match, after eval: the replacement text of one {expression} span
Replacement(expression, value) ==
    IF IsExc(value)
    THEN IF value.v = "KeyError" THEN UnresolvedToken(expression)
         ELSE ErrorToken(expression)
    ELSE PyStr(value)

ResolveMatch(expression, context) == Replacement(expression, Eval(expression, context))

\* A faulty MatchEnd: the pattern \{([^\}]*)\}, which also matches "{}".
MatchEndOrEmpty(text, i) ==
    LET j == FirstAfter(text, i, "}") IN
    IF text[i] = "{" /\ j >= i + 1 THEN j ELSE 0

\* pattern \{([^\}]+)\} at position i: the index of the closing brace, or 0
MatchEnd(text, i) ==
    LET j == FirstAfter(text, i, "}") IN
    IF text[i] = "{" /\ j >= i + 2 THEN j ELSE 0

RECURSIVE ReSub(_, _, _)
\* A faulty ReSub: after a placeholder that fails the rest of the text is dropped.
ReSubStopAtError(text, i, context) ==
    IF i > Len(text) THEN <<>>
    ELSE IF MatchEnd(text, i) # 0
         THEN IF IsExc(Eval(SubSeq(text, i + 1, MatchEnd(text, i) - 1), context))
              THEN ResolveMatch(SubSeq(text, i + 1, MatchEnd(text, i) - 1), context)
              ELSE ResolveMatch(SubSeq(text, i + 1, MatchEnd(text, i) - 1), context)
                   \o ReSub(text, MatchEnd(text, i) + 1, context)
         ELSE <<text[i]>> \o ReSub(text, i + 1, context)

\* re.sub(pattern, resolve_match, text), from position i on
ReSub(text, i, context) ==
    IF i > Len(text) THEN <<>>
    ELSE IF MatchEnd(text, i) # 0
         THEN ResolveMatch(SubSeq(text, i + 1, MatchEnd(text, i) - 1), context)
              \o ReSub(text, MatchEnd(text, i) + 1, context)
         ELSE <<text[i]>> \o ReSub(text, i + 1, context)

\* _resolve_placeholders(text, context) of an executor whose dsl_context is dsl;
\* a text that is no string makes re.sub raise, which is caught
ResolvePlaceholders(text, context, dsl) ==
    LET ctx == IF DOMAIN context # {} THEN context ELSE dsl IN
    IF text.t = "str" THEN StrV(ReSub(text.v, 1, ctx))
    ELSE StrV(ErrorToken(PyStr(text)))

RECURSIVE Resolve(_, _, _)
RECURSIVE ResolveEach(_, _, _, _)
RECURSIVE ResolveValues(_, _, _, _)

ResolveEach(xs, i, context, dsl) ==
    IF i > Len(xs) THEN <<>>
    ELSE <<Resolve(xs[i], context, dsl)>> \o ResolveEach(xs, i + 1, context, dsl)

ResolveValues(kvs, i, context, dsl) ==
    IF i > Len(kvs) THEN <<>>
    ELSE << <<kvs[i][1], Resolve(kvs[i][2], context, dsl)>> >>
         \o ResolveValues(kvs, i + 1, context, dsl)

\* resolve(value) of _resolve_arguments
Resolve(value, context, dsl) ==
    CASE value.t = "str" /\ InSeq("{", value.v) /\ InSeq("}", value.v) ->
            ResolvePlaceholders(value, context, dsl)
      [] value.t = "list" -> ListV(ResolveEach(value.v, 1, context, dsl))
      [] value.t = "dict" -> DictV(ResolveValues(value.v, 1, context, dsl))
      [] OTHER -> value

\* _resolve_arguments(args, additional_context): the resolved value, or
\* Exc("AttributeError") when args is neither a string nor a mapping
ResolveArguments(args, additional_context, dsl) ==
    LET context == Merge(dsl, additional_context) IN
    CASE args.t = "str" -> ResolvePlaceholders(args, context, dsl)
      [] args.t = "dict" -> DictV(ResolveValues(args.v, 1, context, dsl))
      [] OTHER -> Exc("AttributeError")

\* eval() of a value that may not be a string
PyEval(x, context) == IF x.t = "str" THEN Eval(x.v, context) ELSE Exc("TypeError")

\* A faulty ConditionResult: a condition that does not evaluate counts as true.
ConditionResultOpen(result) == IF IsExc(result) THEN TRUE ELSE Truthy(result)

\* _resolve_condition(condition, context)
\* bool(result), and False when the evaluation raised
ConditionResult(result) == IF IsExc(result) THEN FALSE ELSE Truthy(result)

ResolveCondition(condition, context, dsl) ==
    ConditionResult(PyEval(condition, IF DOMAIN context # {} THEN context ELSE dsl))


----------------------------------------------------------------------------
(* Step registry *)

\* The attributes dir() lists on a CORE instance, each with the bound
\* methods inspect.getmembers(attr, ismethod) returns for it.
CoreAttrs ==
    << <<"cursor", <<>>>>,
       <<"message", <<"__init__", "write_message">>>> >>

\* The same for an SCMAPI instance.
ScmAttrs ==
    << <<"component", <<"__init__", "check_component_availability",
                        "check_components_for_product", "check_supplier_components",
                        "place_component_order", "reserve_stock_components">>>>,
       <<"cursor", <<>>>>,
       <<"customer", <<"__init__", "get_customer_details">>>>,
       <<"customer_order", <<"__init__", "cancel_order", "create_order",
                             "get_order_details", "get_order_status",
                             "get_pending_orders", "partial_allocate_order",
                             "update_order_status">>>>,
       <<"inventory", <<"__init__", "adjust_stock", "allocate_stock", "check_stock">>>>,
       <<"product", <<"__init__", "get_products">>>>,
       <<"production", <<"__init__", "allocate_prebooked_production",
                         "get_production_backlog", "schedule_production">>>>,
       <<"report", <<"__init__", "generate_order_report", "generate_production_report",
                     "generate_replenishment_report", "generate_summary_report">>>>,
       <<"shipping", <<"__init__", "confirm_shipment", "get_shipping_options",
                       "track_shipment">>>> >>

\* The same for the aggregate CRMAPI of a domain module proj.apps.crm.api
\* that has a capability group Message with a write_message of its own, so
\* that its key is the one of the core group (the repository ships no such
\* module: like a plan, the module found for an application identifier is
\* an input of the executor).
CrmAttrs ==
    << <<"Message", <<"__init__", "write_message">>>>,
       <<"cursor", <<>>>> >>

\* The application identifiers a session is built for: scm; crm; bare, whose
\* module proj.apps.bare.api has no class BAREAPI; nomod, which has a
\* database directory and no module; nosuch, of which nothing exists.
Apps == {"scm", "crm", "bare", "nomod", "nosuch"}

\* the application identifiers for which sqlite3.connect(get_db_file(app_name))
\* can open the file: the directory proj/apps/<app_name>/db exists
DbDirs == {"scm", "crm", "bare", "nomod"}

\* the application identifiers for which importlib finds a module
\* proj.apps.<app_name>.api
AppModules == {"scm", "crm", "bare"}

\* the attributes of an instance of the class <APP_NAME>API of that module,
\* or NoClass when the module has no such class
NoClass == << <<"", <<>>>> >>

ApiAttrs(app_name) ==
    CASE app_name = "scm" -> ScmAttrs
      [] app_name = "crm" -> CrmAttrs
      [] OTHER -> NoClass

\* str.lower() of an attribute name: the name in lower case
LowerCase == [Message |-> "message"]

Lower(attr_name) ==
    IF attr_name \in DOMAIN LowerCase THEN LowerCase[attr_name] ELSE attr_name

\* f"{attr_name.lower()}.{method_name}"
QualifiedName(attr_name, method_name) == Lower(attr_name) \o "." \o method_name

\* the registration loop over an instance's attributes: registry[key] = ...
RegisterAttrs(registry, attrs, source) ==
    LET slots == UNION { { <<i, j>> : j \in 1..Len(attrs[i][2]) } : i \in 1..Len(attrs) }
        key(sl) == QualifiedName(attrs[sl[1]][1], attrs[sl[1]][2][sl[2]])
        keys == { key(sl) : sl \in slots }
        slot(k) == CHOOSE sl \in slots :
                      key(sl) = k /\ \A o \in slots : key(o) = k => o[1] <= sl[1]
    IN [k \in (DOMAIN registry) \cup keys |->
          IF k \in keys
          THEN [function |-> <<source, attrs[slot(k)[1]][1], attrs[slot(k)[1]][2][slot(k)[2]]>>,
                source |-> source]
          ELSE registry[k]]

RegisterCoreSteps(registry) == RegisterAttrs(registry, CoreAttrs, "core")

\* _register_app_steps: an ImportError is caught, a module without the
\* class returns early, and both leave the registry as it is
RegisterAppSteps(app_name, registry) ==
    IF app_name \notin AppModules THEN registry
    ELSE IF ApiAttrs(app_name) = NoClass THEN registry
    ELSE RegisterAttrs(registry, ApiAttrs(app_name), "app")

\* A faulty RegisterSteps: the core functions are registered last.
RegisterStepsCoreLast(app_name) == RegisterCoreSteps(RegisterAppSteps(app_name, EmptyDict))

\* _register_steps(app_name)
RegisterSteps(app_name) == RegisterAppSteps(app_name, RegisterCoreSteps(EmptyDict))

----------------------------------------------------------------------------
(* Capabilities *)

\* Rows of the Orders table: <<order_id, customer_id, order_date, status>>
SampleOrders ==
    << <<"O001", "C001", "2025-01-01", "Pending">>,
       <<"O003", "C002", "2025-01-03", "Pending">>,
       <<"O002", "C001", "2025-01-02", "Shipped">>,
       <<"O004", "C002", "2025-01-04", "Pending">> >>

MaxOrders == 2

Databases == { SubSeq(SampleOrders, 1, n) : n \in 0..MaxOrders }

Keys(kwargs) == { kwargs.v[i][1] : i \in 1..Len(kwargs.v) }

\* Message.write_message(message)
WriteMessage(kwargs) ==
    IF Keys(kwargs) = {"message"}
    THEN DictV(<< <<"status", NameV("success")>>,
                  <<"message", Lookup(kwargs.v, "message")>> >>)
    ELSE Exc("TypeError")

RECURSIVE PendingRows(_, _, _)
PendingRows(rows, i, customer_id) ==
    IF i > Len(rows) THEN <<>>
    ELSE (IF /\ rows[i][4] = "Pending"
             /\ (Truthy(customer_id) => customer_id = NameV(rows[i][2]))
          THEN << DictV(<< <<"order_id", NameV(rows[i][1])>>,
                           <<"order_date", NameV(rows[i][3])>>,
                           <<"status", NameV(rows[i][4])>> >>) >>
          ELSE <<>>)
         \o PendingRows(rows, i + 1, customer_id)

\* CustomerOrder.get_pending_orders(customer_id=None)
GetPendingOrders(kwargs, db) ==
    IF ~(Keys(kwargs) \subseteq {"customer_id"}) THEN Exc("TypeError")
    ELSE LET customer_id == DictGet(kwargs, "customer_id", NoneV) IN
         IF Truthy(customer_id) /\ customer_id.t \in {"list", "dict"}
         THEN Exc("InterfaceError")
         ELSE ListV(PendingRows(db, 1, customer_id))

\* Message.write_message(message) of the crm module: the message is queued
CrmWriteMessage(kwargs) ==
    IF Keys(kwargs) = {"message"}
    THEN DictV(<< <<"status", NameV("queued")>>,
                  <<"message", Lookup(kwargs.v, "message")>> >>)
    ELSE Exc("TypeError")

\* func(**resolved_args) for the capabilities the plans call: the value
\* returned, or Exc(kind) when the call raises
Call(function, kwargs, db) ==
    CASE function = <<"core", "message", "write_message">> -> WriteMessage(kwargs)
      [] function = <<"app", "Message", "write_message">> -> CrmWriteMessage(kwargs)
      [] function = <<"app", "Message", "__init__">> ->
            IF Keys(kwargs) = {"cursor"} THEN NoneV ELSE Exc("TypeError")
      [] function = <<"core", "message", "__init__">> ->
            IF Keys(kwargs) = {"cursor"} THEN NoneV ELSE Exc("TypeError")
      [] function = <<"app", "customer_order", "get_pending_orders">> ->
            GetPendingOrders(kwargs, db)


----------------------------------------------------------------------------
(* Plans.  A step is a record of the keys _execute_step reads (a key the   *)
(* plan does not give is Missing, and no `steps` is the empty sequence,     *)
(* the default of step.get("steps", [])); `name` is only logged and is     *)
(* left out.                                                               *)

ActionStep(function, arguments, output_var) ==
    [function |-> function, arguments |-> arguments, output_var |-> output_var,
     loop |-> Missing, condition |-> Missing, steps |-> <<>>]

LoopStep(variable, over, steps) ==
    [function |-> Missing, arguments |-> Missing, output_var |-> Missing,
     loop |-> DictV(<< <<"variable", NameV(variable)>>, <<"over", over>> >>),
     condition |-> Missing, steps |-> steps]

ConditionStep(condition, steps) ==
    [function |-> Missing, arguments |-> Missing, output_var |-> Missing,
     loop |-> Missing, condition |-> condition, steps |-> steps]

\* step.get(key, default)
Get(step, key, default) == IF step[key] = Missing THEN default ELSE step[key]

\* the dictionary key a name value stands for
KeyOf(name) == IF name.t = "str" /\ Len(name.v) = 1 THEN name.v[1] ELSE "None"

MaxLoopLen == 2

RECURSIVE IntItems(_, _)
\* k*1, ..., k*n as values
IntItems(k, n) == IF n = 0 THEN <<>> ELSE Append(IntItems(k, n - 1), IntV(k * n))

\* the text "[k, 2k, ..., nk]" and the text "[[k], [k, 2k], ...]"
ListSrc(k, n) == StrV(Repr(ListV(IntItems(k, n))))

RECURSIVE Prefixes(_, _)
Prefixes(k, n) == IF n = 0 THEN <<>> ELSE Append(Prefixes(k, n - 1), ListV(IntItems(k, n)))

NestSrc(k, n) == StrV(Repr(ListV(Prefixes(k, n))))

Msg(text) == DictV(<< <<"message", StrV(text)>> >>)

WriteStep(text, output_var) ==
    ActionStep(NameV("message.write_message"), Msg(text), NameV(output_var))

Hello == WriteStep(<<"hi">>, "r")
HelloNoOut == ActionStep(NameV("message.write_message"), Msg(<<"hi">>), Missing)
SeedLast == WriteStep(<<"old">>, "last")
Miss == ActionStep(NameV("foo.bar"), Missing, NameV("x"))
MissMalformed == ActionStep(NameV("foo.bar"), ListV(<<IntV(1)>>), NameV("x"))
Bad == ActionStep(NameV("message.write_message"), Missing, NameV("r"))
Malformed == ActionStep(NameV("message.write_message"), ListV(<<StrV(<<"hi">>)>>), NameV("r"))
FetchOrders == ActionStep(NameV("customer_order.get_pending_orders"), DictV(<<>>),
                          NameV("pending_orders"))
FirstOrder == WriteStep(<<"first", "{", "pending_orders", "[", "0", "]", "}">>, "message_result")
CountOrders == WriteStep(<<"{", "len", "(", "pending_orders", ")", "*", "2", "}">>,
                         "message_result")
SayItem == WriteStep(<<"{", "item", "}">>, "last")
SayOrder == WriteStep(<<"order", "{", "item", "[", "'", "order_id", "'", "]", "}">>, "last")
SayPair == WriteStep(<<"{", "a", "}", ",", "{", "b", "}">>, "pair")
SayB == WriteStep(<<"{", "b", "}">>, "pair")
ReadBack == WriteStep(<<"{", "item", "}", "{", "last", "}">>, "seen")
\* a step that names the constructor of the group message
CallInit == ActionStep(NameV("message.__init__"), DictV(<< <<"cursor", NoneV>> >>), NameV("r"))

\* a loop whose body writes, then has a step with ill-formed arguments,
\* then a step that would write r
AbortedLoop == LoopStep("item", ListSrc(1, MaxLoopLen), <<SayItem, Malformed, Hello>>)

\* a message with braces and no {expression} span
Braces == WriteStep(<<"a", "{", "}", "}", "{">>, "r")
ReadLast == WriteStep(<<"{", "last", "}">>, "seen")
BadLast == ActionStep(NameV("message.write_message"), Missing, NameV("last"))
TwiceCount ==
    WriteStep(<<"Twice", "{", "len", "(", "pending_orders", ")", "*", "2", "}", ".">>,
              "message_result")
SayA == WriteStep(<<"{", "a", "}">>, "r")
TwiceLen == WriteStep(<<"n", "{", "len", "(", "a", ")", "*", "2", "}", "!">>, "r")

\* loop sources: a list literal, an empty list, an output variable given as
\* a placeholder and as a bare name, a range, an unbound name, a scalar, and
\* a list given as a value, not as text
Sources ==
    { ListSrc(1, MaxLoopLen), StrV(<<"[", "]">>), ListV(IntItems(1, MaxLoopLen)),
      StrV(<<"{", "pending_orders", "}">>), StrV(<<"pending_orders">>),
      StrV(<<"range", "(", Numeral(MaxLoopLen), ")">>),
      StrV(<<"nosuch">>), StrV(<<"5">>) }

Bodies ==
    { <<SayItem>>, <<SayOrder>>, <<Miss, SayItem>>, <<Bad, SayItem>>,
      <<Malformed, SayItem>>, <<SayItem, ReadLast>>, <<HelloNoOut>> }

FalseConditions == { StrV(<<"1", ">", "2">>), StrV(<<"{", "1", "}", ">", "2">>) }

TrueConditions == { StrV(<<"2", ">", "1">>), StrV(<<"len", "(", "pending_orders", ")", ">", "0">>) }

\* ill-formed step fields: a loop that is no mapping, a condition that is no string
BadLoop == [LoopStep("item", ListSrc(1, MaxLoopLen), <<SayItem>>) EXCEPT !.loop = NameV("item")]
BadCondition == ConditionStep(IntV(1), <<Hello>>)
\* a step with a function and a `loop` key whose value is an empty mapping
EmptyLoopKey == [Hello EXCEPT !.loop = DictV(<<>>)]
LoopAndCondition ==
    [LoopStep("item", ListSrc(1, MaxLoopLen), <<SayItem>>) EXCEPT !.condition = StrV(<<"1", ">", "2">>)]

InnerLoops ==
    { LoopStep("b", src, body) :
        src \in { ListSrc(10, MaxLoopLen), StrV(<<"a">>), StrV(<<"{", "a", "}">>) },
        body \in { <<SayPair>>, <<SayB>>, <<Malformed, SayB>> } }

NestedLoops ==
    { LoopStep("a", src, <<inner>>) :
        src \in { ListSrc(1, MaxLoopLen), NestSrc(1, MaxLoopLen) }, inner \in InnerLoops }

GuardedSteps ==
    { ConditionStep(c, body) :
        c \in FalseConditions \cup TrueConditions,
        body \in { <<Hello>>, <<Hello, ReadLast>>,
                   <<LoopStep("item", ListSrc(1, MaxLoopLen), <<SayItem>>)>>,
                   <<ConditionStep(StrV(<<"2", ">", "1">>), <<Hello>>)>> } }

DeepSteps ==
    { LoopStep("a", ListSrc(1, MaxLoopLen),
               <<ConditionStep(c, <<LoopStep("item", ListSrc(10, MaxLoopLen), <<SayItem>>), ReadLast>>)>>) :
        c \in { StrV(<<"a", ">", "0">>), StrV(<<"a", ">", "1">>) } }

\* a condition on the loop variable in a loop body, bare and as a placeholder
GuardedInLoop ==
    { LoopStep("a", ListSrc(1, MaxLoopLen), <<ConditionStep(c, <<SayA>>)>>) :
        c \in { StrV(<<"a", ">", "1">>), StrV(<<"{", "a", "}", ">", "1">>) } }

\* a loop over the lists [1], [1, 2], ... whose body writes twice their length
CountingLoop == LoopStep("a", NestSrc(1, MaxLoopLen), <<TwiceLen>>)

MainSteps ==
    { AbortedLoop, Braces, CallInit, CountingLoop, EmptyLoopKey, Hello, HelloNoOut, Miss, MissMalformed, Bad, Malformed, FirstOrder, CountOrders,
      BadLoop, BadCondition, LoopAndCondition, BadLast, TwiceCount }
    \cup { LoopStep("item", src, body) : src \in Sources, body \in Bodies }
    \cup NestedLoops \cup GuardedSteps \cup DeepSteps \cup GuardedInLoop

Setups == { <<>>, <<FetchOrders>>, <<SeedLast>> }

Probes == { <<>>, <<ReadBack>> }

\* the plans execute_task is given: an optional first step that fills the
\* Context, the step under study, an optional last step that reads back
Plans == { pre \o <<main>> \o post : pre \in Setups, main \in MainSteps, post \in Probes }


----------------------------------------------------------------------------
(* The executor as a state machine *)

VARIABLES
    app_name,       \* self.app_name
    db,             \* the Orders table behind self.cursor
    step_registry,  \* self.step_registry
    dsl_context,    \* self.dsl_context
    stack,          \* the active calls: execute_task, _execute_loop, _execute_condition
    pc,             \* "new", "unbuilt" (the constructor raised), "idle", "running",
                    \* "returned" or "raised" (execute_task raised)
    last,           \* the last event (history)
    trace           \* the events so far, oldest first (history)

vars == <<app_name, db, step_registry, dsl_context, stack, pc, last, trace>>

\* A frame is the `for step in steps` loop of one call: pos is the index of
\* the step to run next, ac the additional_context its steps are given; a
\* loop frame also has the loop variable, the items and the index idx of the
\* item of the current iteration.
TaskFrame(steps) ==
    [kind |-> "task", steps |-> steps, pos |-> 1, ac |-> EmptyDict,
     variable |-> "", items |-> <<>>, idx |-> 0]

ConditionFrame(steps, context) ==
    [kind |-> "cond", steps |-> steps, pos |-> 1, ac |-> context,
     variable |-> "", items |-> <<>>, idx |-> 0]

LoopFrame(variable, items, steps) ==
    [kind |-> "loop", steps |-> steps, pos |-> Len(steps) + 1, ac |-> EmptyDict,
     variable |-> variable, items |-> items, idx |-> 0]

Top == stack[Len(stack)]

HasStep == pc = "running" /\ Len(stack) > 0 /\ Top.pos <= Len(Top.steps)

CurrentStep == Top.steps[Top.pos]

\* the enclosing `for step in steps` moves on to its next step
Advance(st) == [st EXCEPT ![Len(st)].pos = @ + 1]

\* A faulty Unwind: the exception ends the iteration, not the loop.
UnwindIteration(st) ==
    IF \E i \in 1..Len(st) : st[i].kind = "loop"
    THEN LET n == CHOOSE i \in 1..Len(st) :
                      /\ st[i].kind = "loop"
                      /\ \A j \in (i + 1)..Len(st) : st[j].kind # "loop"
         IN [m \in 1..n |->
                IF m = n THEN [st[m] EXCEPT !.pos = Len(st[m].steps) + 1] ELSE st[m]]
    ELSE <<>>

\* An exception leaves the current step: the innermost _execute_loop on the
\* stack catches it (its try encloses its iterations) and returns; with no
\* loop on the stack it leaves execute_task.
Unwind(st) ==
    IF \E i \in 1..Len(st) : st[i].kind = "loop"
    THEN SubSeq(st, 1, (CHOOSE i \in 1..Len(st) :
                          /\ st[i].kind = "loop"
                          /\ \A j \in (i + 1)..Len(st) : st[j].kind # "loop") - 1)
    ELSE <<>>

RECURSIVE RangeItems(_)
RangeItems(n) == IF n <= 0 THEN <<>> ELSE Append(RangeItems(n - 1), IntV(n - 1))

\* A faulty Items: the body of a loop over an empty list runs once.
ItemsAtLeastOne(iterable) ==
    IF iterable.t = "range" THEN RangeItems(iterable.v)
    ELSE IF iterable.v = <<>> THEN <<NoneV>> ELSE iterable.v

\* A faulty Items: the elements are visited from the last to the first.
ItemsBackwards(iterable) ==
    IF iterable.t = "range"
    THEN [n \in 1..Len(RangeItems(iterable.v)) |->
             RangeItems(iterable.v)[Len(RangeItems(iterable.v)) + 1 - n]]
    ELSE [n \in 1..Len(iterable.v) |-> iterable.v[Len(iterable.v) + 1 - n]]

\* the elements `for item in resolved_iterable` visits
Items(iterable) == IF iterable.t = "range" THEN RangeItems(iterable.v) ELSE iterable.v

NoStep == ActionStep(Missing, Missing, Missing)

\* An event of the history: what was done (op, outcome) to which step, with
\* dsl_context and the call stack as they were before it, the scope
\* {**dsl_context, **additional_context} of the step, and the values the
\* step computed.
Event(op, outcome, step, scope, args, result) ==
    [op |-> op, outcome |-> outcome, step |-> step, before |-> dsl_context,
     stack |-> stack, scope |-> scope, args |-> args, result |-> result,
     depth |-> Len(stack)]

Record(e) ==
    /\ last' = e
    /\ trace' = Append(trace, e)

\* the state after an exception left the current step
Raised(st) == IF Unwind(st) = <<>> THEN "raised" ELSE "running"

\* Before DSLExecutor(app_name) is called: the application identifier and
\* the rows of its database are the caller's.
Init ==
    /\ app_name \in Apps
    /\ db \in (IF app_name = "scm" THEN Databases ELSE {<<>>})
    /\ step_registry = EmptyDict
    /\ dsl_context = EmptyDict
    /\ stack = <<>>
    /\ pc = "new"
    /\ last = [op |-> "init", outcome |-> "ok", step |-> NoStep, before |-> EmptyDict,
               stack |-> <<>>, scope |-> EmptyDict, args |-> NoneV, result |-> NoneV,
               depth |-> 0]
    /\ trace = <<>>

\* DSLExecutor(app_name): sqlite3.connect raises when the database file
\* cannot be opened, and then there is no executor; else the registry is built
Construct ==
    /\ pc = "new"
    /\ pc' = IF app_name \in DbDirs THEN "idle" ELSE "unbuilt"
    /\ step_registry' = IF app_name \in DbDirs THEN RegisterSteps(app_name)
                        ELSE step_registry
    /\ UNCHANGED <<app_name, db, dsl_context, stack, last, trace>>

\* the caller holds the executor and is not inside execute_task
AtCaller == pc \in {"idle", "returned", "raised"}

\* the execute_task calls made so far on this executor
Calls == { i \in 1..Len(trace) : trace[i].op = "execute_task" }

MaxCalls == 2

\* the plans given to an executor that is no longer fresh
FollowUps == { <<ReadLast>> }

\* the plans the caller may give now: a fresh executor is given any plan,
\* one that was seeded or has run a plan is given a follow-up
Offered == IF trace = <<>> THEN Plans ELSE FollowUps

\* the bindings the caller writes into the Context itself
Seeds == { <<"last", StrV(<<"new">>)>> }

\* dsl_executor.dsl_context[key] = value, by the caller before a call, for
\* a key the Context does not hold
Seed(key, value) ==
    /\ AtCaller
    /\ key \notin DOMAIN dsl_context
    /\ dsl_context' = Bind(dsl_context, key, value)
    /\ Record(Event("seed", "ok", NoStep, dsl_context, NameV(key), value))
    /\ UNCHANGED <<app_name, db, step_registry, stack, pc>>

\* A faulty ExecuteTask: every call starts from an empty Context.
ExecuteTaskFresh(plan) ==
    /\ AtCaller
    /\ Cardinality(Calls) < MaxCalls
    /\ plan \in Offered
    /\ pc' = "running"
    /\ stack' = <<TaskFrame(plan)>>
    /\ dsl_context' = EmptyDict
    /\ Record(Event("execute_task", "ok", NoStep, dsl_context, ListV(plan), NoneV))
    /\ UNCHANGED <<app_name, db, step_registry>>

\* execute_task(task_yaml), up to its first step
ExecuteTask(plan) ==
    /\ AtCaller
    /\ Cardinality(Calls) < MaxCalls
    /\ plan \in Offered
    /\ pc' = "running"
    /\ stack' = <<TaskFrame(plan)>>
    /\ Record(Event("execute_task", "ok", NoStep, dsl_context, ListV(plan), NoneV))
    /\ UNCHANGED <<app_name, db, step_registry, dsl_context>>

\* A faulty Store: the result replaces the Context instead of joining it.
StoreAlone(step, resolved_args, result, dsl) ==
    IF IsExc(result)
    THEN [outcome |-> "capability_error", args |-> resolved_args, result |-> result,
          context |-> dsl]
    ELSE [outcome |-> "ok", args |-> resolved_args, result |-> result,
          context |-> IF Truthy(Get(step, "output_var", NoneV))
                      THEN Bind(EmptyDict, KeyOf(Get(step, "output_var", NoneV)), result)
                      ELSE dsl]

\* A faulty Store: when the callable raised, output_var is bound to None.
StoreOnError(step, resolved_args, result, dsl) ==
    [outcome |-> IF IsExc(result) THEN "capability_error" ELSE "ok",
     args |-> resolved_args, result |-> result,
     context |-> IF Truthy(Get(step, "output_var", NoneV))
                 THEN Bind(dsl, KeyOf(Get(step, "output_var", NoneV)),
                           IF IsExc(result) THEN NoneV ELSE result)
                 ELSE dsl]

\* the end of an Action step whose callable returned or raised result:
\* [outcome, args, result, context]
Store(step, resolved_args, result, dsl) ==
    IF IsExc(result)
    THEN [outcome |-> "capability_error", args |-> resolved_args, result |-> result,
          context |-> dsl]
    ELSE [outcome |-> "ok", args |-> resolved_args, result |-> result,
          context |-> IF Truthy(Get(step, "output_var", NoneV))
                      THEN Bind(dsl, KeyOf(Get(step, "output_var", NoneV)), result)
                      ELSE dsl]

\* some text of the resolved arguments holds an error token
HasErrorToken(args) ==
    /\ args.t = "dict"
    /\ \E n \in 1..Len(args.v) :
          /\ args.v[n][2].t = "str"
          /\ \E m \in 1..Len(args.v[n][2].v) :
                args.v[n][2].v[m] \in {"<Error resolving", "<Unresolved"}

\* A faulty Invoke: arguments that hold an error token suppress the call.
InvokeResolvedOnly(step, registry, resolved_args, rows, dsl) ==
    IF IsExc(resolved_args)
    THEN [outcome |-> "raise", args |-> resolved_args, result |-> NoneV, context |-> dsl]
    ELSE IF HasErrorToken(resolved_args)
    THEN [outcome |-> "capability_error", args |-> resolved_args,
          result |-> Exc("ValueError"), context |-> dsl]
    ELSE Store(step, resolved_args,
               IF resolved_args.t = "dict"
               THEN Call(registry[KeyOf(Get(step, "function", NoneV))].function,
                         resolved_args, rows)
               ELSE Exc("TypeError"),
               dsl)

\* A faulty Invoke: an exception of the callable is not caught.
Uncaught(d) == IF d.outcome = "capability_error" THEN [d EXCEPT !.outcome = "raise"] ELSE d

InvokeUncaught(step, registry, resolved_args, rows, dsl) ==
    IF IsExc(resolved_args)
    THEN [outcome |-> "raise", args |-> resolved_args, result |-> NoneV, context |-> dsl]
    ELSE Uncaught(Store(step, resolved_args,
                        IF resolved_args.t = "dict"
                        THEN Call(registry[KeyOf(Get(step, "function", NoneV))].function,
                                  resolved_args, rows)
                        ELSE Exc("TypeError"),
                        dsl))

\* func(**resolved_args) of the registered function, and what follows
Invoke(step, registry, resolved_args, rows, dsl) ==
    IF IsExc(resolved_args)
    THEN [outcome |-> "raise", args |-> resolved_args, result |-> NoneV, context |-> dsl]
    ELSE Store(step, resolved_args,
               IF resolved_args.t = "dict"
               THEN Call(registry[KeyOf(Get(step, "function", NoneV))].function,
                         resolved_args, rows)
               ELSE Exc("TypeError"),
               dsl)

\* self.step_registry.get(func_name) finds an entry
Registered(step, registry) ==
    /\ Get(step, "function", NoneV).t = "str"
    /\ KeyOf(Get(step, "function", NoneV)) \in DOMAIN registry

\* A faulty Dispatch: the arguments are resolved before the registry lookup.
DispatchResolveFirst(step, additional_context, registry, rows, dsl) ==
    IF IsExc(ResolveArguments(Get(step, "arguments", DictV(<<>>)), additional_context, dsl))
    THEN [outcome |-> "raise", args |-> NoneV, result |-> NoneV, context |-> dsl]
    ELSE IF ~Registered(step, registry)
    THEN [outcome |-> "miss", args |-> NoneV, result |-> NoneV, context |-> dsl]
    ELSE Invoke(step, registry,
                ResolveArguments(Get(step, "arguments", DictV(<<>>)), additional_context, dsl),
                rows, dsl)

\* A faulty Dispatch: the arguments are resolved without the Context.
DispatchBlind(step, additional_context, registry, rows, dsl) ==
    IF ~Registered(step, registry)
    THEN [outcome |-> "miss", args |-> NoneV, result |-> NoneV, context |-> dsl]
    ELSE Invoke(step, registry,
                ResolveArguments(Get(step, "arguments", DictV(<<>>)), additional_context,
                                 EmptyDict),
                rows, dsl)

\* what an Action step does: [outcome, args, result, context]
Dispatch(step, additional_context, registry, rows, dsl) ==
    IF ~Registered(step, registry)
    THEN [outcome |-> "miss", args |-> NoneV, result |-> NoneV, context |-> dsl]
    ELSE Invoke(step, registry,
                ResolveArguments(Get(step, "arguments", DictV(<<>>)), additional_context, dsl),
                rows, dsl)

\* A faulty ExecuteAction: inside a loop or condition body the result is
\* bound in the additional_context of the body, not in dsl_context.
ExecuteActionLocal ==
    /\ HasStep
    /\ ~Truthy(Get(CurrentStep, "loop", NoneV))
    /\ ~Truthy(Get(CurrentStep, "condition", NoneV))
    /\ \E d \in {Dispatch(CurrentStep, Top.ac, step_registry, db, dsl_context)} :
       /\ dsl_context' = IF Len(stack) = 1 THEN d.context ELSE dsl_context
       /\ stack' = IF d.outcome = "raise" THEN Unwind(stack)
                   ELSE IF Len(stack) = 1 THEN Advance(stack)
                   ELSE [Advance(stack) EXCEPT ![Len(stack)].ac = Merge(@, d.context)]
       /\ pc' = IF d.outcome = "raise" THEN Raised(stack) ELSE pc
       /\ Record(Event("action", d.outcome, CurrentStep,
                       Merge(dsl_context, Top.ac), d.args, d.result))
    /\ UNCHANGED <<app_name, db, step_registry>>

\* _execute_step on a step with neither a loop nor a condition
ExecuteAction ==
    /\ HasStep
    /\ ~Truthy(Get(CurrentStep, "loop", NoneV))
    /\ ~Truthy(Get(CurrentStep, "condition", NoneV))
    /\ \E d \in {Dispatch(CurrentStep, Top.ac, step_registry, db, dsl_context)} :
       /\ dsl_context' = d.context
       /\ stack' = IF d.outcome = "raise" THEN Unwind(stack) ELSE Advance(stack)
       /\ pc' = IF d.outcome = "raise" THEN Raised(stack) ELSE pc
       /\ Record(Event("action", d.outcome, CurrentStep,
                       Merge(dsl_context, Top.ac), d.args, d.result))
    /\ UNCHANGED <<app_name, db, step_registry>>

\* A faulty Iterable: a source that is no list or range is taken as a
\* sequence of one element.
IterableLenient(loop_variable, resolved_iterable) ==
    IF IsExc(resolved_iterable)
    THEN [outcome |-> "skipped", variable |-> KeyOf(loop_variable),
          iterable |-> resolved_iterable, items |-> <<>>]
    ELSE [outcome |-> "entered", variable |-> KeyOf(loop_variable),
          iterable |-> resolved_iterable,
          items |-> IF resolved_iterable.t \in {"list", "range"}
                    THEN Items(resolved_iterable) ELSE <<resolved_iterable>>]

\* _execute_loop after eval of the source: [outcome, variable, iterable, items]
Iterable(loop_variable, resolved_iterable) ==
    IF IsExc(resolved_iterable) \/ resolved_iterable.t \notin {"list", "range"}
    THEN [outcome |-> "skipped", variable |-> KeyOf(loop_variable),
          iterable |-> resolved_iterable, items |-> <<>>]
    ELSE [outcome |-> "entered", variable |-> KeyOf(loop_variable),
          iterable |-> resolved_iterable, items |-> Items(resolved_iterable)]

\* what the loop of a step finds to iterate over: [outcome, variable, iterable, items]
LoopSource(step, additional_context, dsl) ==
    IF Get(step, "loop", NoneV).t # "dict"
    THEN [outcome |-> "raise", variable |-> "", iterable |-> NoneV, items |-> <<>>]
    ELSE Iterable(DictGet(Get(step, "loop", NoneV), "variable", NoneV),
                  PyEval(ResolvePlaceholders(DictGet(Get(step, "loop", NoneV), "over", NoneV),
                                             EmptyDict, dsl),
                         dsl))

\* _execute_step on a step with a loop, up to the first iteration
ExecuteLoop ==
    /\ HasStep
    /\ Truthy(Get(CurrentStep, "loop", NoneV))
    /\ \E l \in {LoopSource(CurrentStep, Top.ac, dsl_context)} :
       /\ stack' = CASE l.outcome = "raise" -> Unwind(stack)
                     [] l.outcome = "skipped" -> Advance(stack)
                     [] OTHER -> Append(Advance(stack),
                                        LoopFrame(l.variable, l.items,
                                                  CurrentStep.steps))
       /\ pc' = IF l.outcome = "raise" THEN Raised(stack) ELSE pc
       /\ Record(Event("loop", l.outcome, CurrentStep, Merge(dsl_context, Top.ac),
                       l.iterable, ListV(l.items)))
    /\ UNCHANGED <<app_name, db, step_registry, dsl_context>>

\* A faulty LoopContext: every iteration binds the first element.
LoopContextFirst(dsl, frame, item) == Bind(dsl, frame.variable, frame.items[1])

\* {**self.dsl_context, loop_variable: item}
LoopContext(dsl, frame, item) == Bind(dsl, frame.variable, item)

\* A faulty LoopIterate: the loop variable is also set in dsl_context.
LoopIterateShared ==
    /\ pc = "running" /\ Len(stack) > 0
    /\ Top.kind = "loop" /\ Top.pos > Len(Top.steps) /\ Top.idx < Len(Top.items)
    /\ stack' = [stack EXCEPT ![Len(stack)].idx = @ + 1,
                              ![Len(stack)].pos = 1,
                              ![Len(stack)].ac =
                                  LoopContext(dsl_context, Top, Top.items[Top.idx + 1])]
    /\ dsl_context' = LoopContext(dsl_context, Top, Top.items[Top.idx + 1])
    /\ Record(Event("iterate", "ok", NoStep, dsl_context, NoneV, Top.items[Top.idx + 1]))
    /\ UNCHANGED <<app_name, db, step_registry, pc>>

\* `for item in resolved_iterable`: the next iteration starts
LoopIterate ==
    /\ pc = "running" /\ Len(stack) > 0
    /\ Top.kind = "loop" /\ Top.pos > Len(Top.steps) /\ Top.idx < Len(Top.items)
    /\ stack' = [stack EXCEPT ![Len(stack)].idx = @ + 1,
                              ![Len(stack)].pos = 1,
                              ![Len(stack)].ac =
                                  LoopContext(dsl_context, Top, Top.items[Top.idx + 1])]
    /\ Record(Event("iterate", "ok", NoStep, dsl_context, NoneV, Top.items[Top.idx + 1]))
    /\ UNCHANGED <<app_name, db, step_registry, dsl_context, pc>>

\* the iterable is exhausted: _execute_loop returns
LoopExit ==
    /\ pc = "running" /\ Len(stack) > 0
    /\ Top.kind = "loop" /\ Top.pos > Len(Top.steps) /\ Top.idx = Len(Top.items)
    /\ stack' = SubSeq(stack, 1, Len(stack) - 1)
    /\ Record(Event("loop_exit", "ok", NoStep, dsl_context, NoneV, NoneV))
    /\ UNCHANGED <<app_name, db, step_registry, dsl_context, pc>>

\* A faulty Gate: the nested steps run whatever the predicate comes to.
GateOpen(condition_resolved, context, dsl) ==
    IF IsExc(condition_resolved)
    THEN [outcome |-> "raise", condition |-> condition_resolved, context |-> context]
    ELSE [outcome |-> "true", condition |-> condition_resolved, context |-> context]

\* _execute_condition(condition_resolved, ...): [outcome, condition, context]
Gate(condition_resolved, context, dsl) ==
    IF IsExc(condition_resolved)
    THEN [outcome |-> "raise", condition |-> condition_resolved, context |-> context]
    ELSE IF ResolveCondition(condition_resolved, context, dsl)
    THEN [outcome |-> "true", condition |-> condition_resolved, context |-> context]
    ELSE [outcome |-> "false", condition |-> condition_resolved, context |-> context]

\* the condition resolved and evaluated against the Context alone
ConditionGateGlobal(step, additional_context, dsl) ==
    Gate(ResolveArguments(Get(step, "condition", NoneV), EmptyDict, dsl), dsl, dsl)

\* what the condition of a step comes to: [outcome, condition, context]
ConditionGate(step, additional_context, dsl) ==
    Gate(ResolveArguments(Get(step, "condition", NoneV), additional_context, dsl),
         Merge(dsl, additional_context), dsl)

\* _execute_step on a step with a condition and no loop, up to the first
\* nested step
ExecuteCondition ==
    /\ HasStep
    /\ ~Truthy(Get(CurrentStep, "loop", NoneV))
    /\ Truthy(Get(CurrentStep, "condition", NoneV))
    /\ \E c \in {ConditionGate(CurrentStep, Top.ac, dsl_context)} :
       /\ stack' = CASE c.outcome = "raise" -> Unwind(stack)
                     [] c.outcome = "false" -> Advance(stack)
                     [] OTHER -> Append(Advance(stack),
                                        ConditionFrame(CurrentStep.steps,
                                                       c.context))
       /\ pc' = IF c.outcome = "raise" THEN Raised(stack) ELSE pc
       /\ Record(Event("condition", c.outcome, CurrentStep, c.context, c.condition, NoneV))
    /\ UNCHANGED <<app_name, db, step_registry, dsl_context>>

\* the nested steps of a condition are done: _execute_condition returns
ConditionExit ==
    /\ pc = "running" /\ Len(stack) > 0
    /\ Top.kind = "cond" /\ Top.pos > Len(Top.steps)
    /\ stack' = SubSeq(stack, 1, Len(stack) - 1)
    /\ Record(Event("condition_exit", "ok", NoStep, dsl_context, NoneV, NoneV))
    /\ UNCHANGED <<app_name, db, step_registry, dsl_context, pc>>

\* the steps of the plan are done: execute_task returns
Return ==
    /\ pc = "running" /\ Len(stack) > 0
    /\ Top.kind = "task" /\ Top.pos > Len(Top.steps)
    /\ stack' = <<>>
    /\ pc' = "returned"
    /\ Record(Event("return", "ok", NoStep, dsl_context, NoneV, NoneV))
    /\ UNCHANGED <<app_name, db, step_registry, dsl_context>>

Next ==
    \/ Construct
    \/ \E s \in Seeds : Seed(s[1], s[2])
    \/ \E plan \in Offered : ExecuteTask(plan)
    \/ ExecuteAction
    \/ ExecuteLoop
    \/ LoopIterate
    \/ LoopExit
    \/ ExecuteCondition
    \/ ConditionExit
    \/ Return

Spec == Init /\ [][Next]_vars

----------------------------------------------------------------------------
(* Properties.  They are stated over the history: `last` is the event just  *)
(* done, so `last.before` and `last.stack` are the Context and the calls    *)
(* before it and dsl_context and stack are those after it.                  *)

\* the first execute_task on this executor was given this plan
Plan == trace[CHOOSE i \in Calls : \A j \in Calls : i <= j].args.v

\* the index of the event that started the execute_task call in progress
\* (or the last one made)
ThisCall == CHOOSE i \in Calls : \A j \in Calls : j <= i

\* the Context and the call stack after the i-th event
After(i) == IF i < Len(trace) THEN trace[i + 1].before ELSE dsl_context

StackAfter(i) == IF i < Len(trace) THEN trace[i + 1].stack ELSE stack

OutputKey(step) == KeyOf(Get(step, "output_var", NoneV))

\* the event is an Action whose callable returned and whose step has an output_var
Wrote(e) ==
    /\ e.op = "action" /\ e.outcome = "ok"
    /\ Truthy(Get(e.step, "output_var", NoneV))

\* C1: after an Action step whose function is registered, whose arguments
\* resolved and whose callable returned, Context[output_var] is the value
\* the callable returns for the resolved arguments, every other key of the
\* Context is as it was before the step, and no key is gone; run from an
\* empty Context the step leaves exactly one key.
C1_OutputIsOnlyChange ==
    Wrote(last) =>
        /\ OutputKey(last.step) \in DOMAIN dsl_context
        /\ dsl_context[OutputKey(last.step)] =
               Call(step_registry[KeyOf(last.step.function)].function, last.args, db)
        /\ DOMAIN dsl_context = DOMAIN last.before \cup {OutputKey(last.step)}
        /\ \A k \in DOMAIN last.before \ {OutputKey(last.step)} :
               dsl_context[k] = last.before[k]
        /\ last.before = EmptyDict => Cardinality(DOMAIN dsl_context) = 1

\* an Action wrote a new key into a Context that already held another one
C1_Witness ==
    /\ Wrote(last)
    /\ last.before # EmptyDict
    /\ OutputKey(last.step) \notin DOMAIN last.before
    /\ Cardinality(DOMAIN dsl_context) = Cardinality(DOMAIN last.before) + 1

\* C2: an Action step whose function is not in the registry leaves the
\* Context as it was, raises nothing (execute_task is still running) and
\* hands over to the next step of the same sequence, whatever its arguments.
C2_MissIsSkipped ==
    (last.op = "action" /\ ~Registered(last.step, step_registry)) =>
        /\ dsl_context = last.before
        /\ pc = "running"
        /\ stack = Advance(last.stack)

\* a plan has returned in which a step after an unregistered one, with
\* ill-formed arguments, was dispatched and wrote its result
C2_Witness ==
    /\ pc = "returned"
    /\ \E i \in 1..Len(trace) :
          /\ trace[i].op = "action" /\ ~Registered(trace[i].step, step_registry)
          /\ trace[i].step.arguments.t = "list"
          /\ \E j \in (i + 1)..Len(trace) : Wrote(trace[j])

\* C3: a Condition step whose predicate evaluates to false pushes no call
\* for its nested steps (the next step of the same sequence is the one to
\* run, so no nested step at any depth is executed) and leaves the Context
\* as it was.
C3_FalseConditionSkips ==
    (/\ last.op = "condition" /\ ~IsExc(last.args)
     /\ ~ResolveCondition(last.args, last.scope, last.before)) =>
        /\ dsl_context = last.before
        /\ pc = "running"
        /\ stack = Advance(last.stack)

\* a false condition guarding a step with an output_var was met with a
\* non-empty Context
C3_Witness ==
    /\ last.op = "condition" /\ last.outcome = "false"
    /\ last.before # EmptyDict
    /\ \E n \in 1..Len(last.step.steps) :
          Truthy(Get(last.step.steps[n], "output_var", NoneV))

\* the event is a Loop step whose source evaluated to an empty sequence
EmptySource(e) ==
    /\ e.op = "loop"
    /\ \/ e.args.t = "list" /\ e.args.v = <<>>
       \/ e.args.t = "range" /\ e.args.v <= 0

LoopVariable(step) == KeyOf(DictGet(step.loop, "variable", NoneV))

\* C4: a Loop whose source evaluates to an empty sequence starts no
\* iteration: the call returns at once to the next step of the enclosing
\* sequence, the Context after the loop is the Context before it, and the
\* loop variable is no key of it.
C4_EmptyLoopDoesNothing ==
    \A i \in 1..Len(trace) :
        EmptySource(trace[i]) =>
            /\ After(i) = trace[i].before
            /\ i < Len(trace) =>
                  /\ trace[i + 1].op = "loop_exit"
                  /\ After(i + 1) = trace[i].before
                  /\ StackAfter(i + 1) = Advance(trace[i].stack)
                  /\ LoopVariable(trace[i].step) \notin DOMAIN After(i + 1)

\* a loop over an empty list, with a body that writes, has returned to a
\* plan whose Context was not empty
C4_Witness ==
    \E i \in 1..(Len(trace) - 1) :
        /\ EmptySource(trace[i]) /\ trace[i + 1].op = "loop_exit"
        /\ trace[i].before # EmptyDict
        /\ \E n \in 1..Len(trace[i].step.steps) :
              Truthy(Get(trace[i].step.steps[n], "output_var", NoneV))

IsLoopFrame(f) == f.kind = "loop"

\* one of the calls is a loop
InLoop(st) == \E n \in 1..Len(st) : IsLoopFrame(st[n])

\* name k is the variable of a loop of st that is in an iteration, bound
\* to value x, the element of that iteration
BoundByLoop(st, k, x) ==
    \E n \in 1..Len(st) :
        /\ IsLoopFrame(st[n]) /\ st[n].variable = k
        /\ st[n].idx >= 1 /\ st[n].items[st[n].idx] = x

\* C5: the loop itself never changes the Context (entering a loop, starting
\* an iteration and leaving the loop leave it as it was, so the loop
\* variable is never made a key of it); a name a step can resolve that is
\* no key of the Context is the variable of a loop that is in an iteration,
\* bound to the element of that iteration; and a step with no loop around
\* it resolves the keys of the Context and nothing else.
C5_LoopVariableScoped ==
    /\ last.op \in {"loop", "iterate", "loop_exit"} => dsl_context = last.before
    /\ last.op \in {"action", "condition", "loop"} =>
          /\ \A k \in DOMAIN last.scope \ DOMAIN last.before :
                 BoundByLoop(last.stack, k, last.scope[k])
          /\ ~InLoop(last.stack) => DOMAIN last.scope = DOMAIN last.before

\* a plan has returned in which a step of a loop body resolved the loop
\* variable and a step after the loop, naming the variable, could not
C5_Witness ==
    /\ pc = "returned"
    /\ \E i \in 1..Len(trace) :
          /\ trace[i].op = "action"
          /\ "item" \in DOMAIN trace[i].scope \ DOMAIN trace[i].before
          /\ \E j \in (i + 1)..Len(trace) :
                /\ trace[j].op = "action" /\ trace[j].step = ReadBack
                /\ ~InLoop(trace[j].stack)
                /\ "item" \notin DOMAIN trace[j].scope

\* the event bound key k in dsl_context: an Action that stored its result
\* under k, or the caller
Binds(e, k) ==
    \/ Wrote(e) /\ OutputKey(e.step) = k
    \/ e.op = "seed" /\ KeyOf(e.args) = k

\* no event from the i-th (excluded) to the j-th (excluded) wrote key k
NoWriteBetween(i, j, k) ==
    \A m \in (i + 1)..(j - 1) : ~Binds(trace[m], k)

\* C6: the result of an Action that succeeds with an output_var inside a
\* loop body, at any depth of loops and conditions, is bound in
\* dsl_context itself; the binding stays there, with that value, until an
\* Action writes the same key again, also after the loop has returned; and
\* a step of the plan's own sequence that runs later resolves the key to it.
C6_WritesAreGlobal ==
    \A i \in 1..Len(trace) :
        (Wrote(trace[i]) /\ InLoop(trace[i].stack)) =>
            \A j \in (i + 1)..(Len(trace) + 1) :
                NoWriteBetween(i, j, OutputKey(trace[i].step)) =>
                    /\ OutputKey(trace[i].step) \in DOMAIN After(j - 1)
                    /\ After(j - 1)[OutputKey(trace[i].step)] = trace[i].result
                    /\ (j <= Len(trace) /\ trace[j].op = "action" /\ Len(trace[j].stack) = 1) =>
                          trace[j].scope[OutputKey(trace[i].step)] = trace[i].result

\* a plan has returned in which an Action two loops and a condition deep
\* wrote a key that a step after the outer loop read back
C6_Witness ==
    /\ pc = "returned"
    /\ \E i \in 1..Len(trace) :
          /\ Wrote(trace[i]) /\ Len(trace[i].stack) >= 4
          /\ \E j \in (i + 1)..Len(trace) :
                /\ trace[j].op = "action" /\ Len(trace[j].stack) = 1
                /\ NoWriteBetween(i, j, OutputKey(trace[i].step))
                /\ trace[j].step = ReadBack
                /\ trace[j].scope[OutputKey(trace[i].step)] = trace[i].result
\* the plan of the nested-loop example: a over [1, 2], b over [10, 20], an
\* Action in the inner body writing pair from "{a},{b}"
NestedPairs ==
    LoopStep("a", ListSrc(1, MaxLoopLen),
             <<LoopStep("b", ListSrc(10, MaxLoopLen), <<SayPair>>)>>)

\* every loop of st that is in an iteration has its variable bound in scope
\* to the element of that iteration
LoopVariablesBound(st, scope) ==
    \A n \in 1..Len(st) :
        (IsLoopFrame(st[n]) /\ st[n].idx >= 1) =>
            /\ st[n].variable \in DOMAIN scope
            /\ scope[st[n].variable] = st[n].items[st[n].idx]

\* C7: in nested loops an Action of the inner body resolves both the outer
\* and the inner loop variable, each bound to the element of its current
\* iteration, and the nested-loop example ends with Context[pair] holding
\* the value written for the last outer and the last inner element.
C7_InnerBodySeesOuterVariable ==
    /\ last.op = "action" => LoopVariablesBound(last.stack, last.scope)
    /\ (pc = "returned" /\ Plan = <<NestedPairs>>) =>
          /\ "pair" \in DOMAIN dsl_context
          /\ dsl_context["pair"] =
                 WriteMessage(Msg(<<Numeral(MaxLoopLen), ",", Numeral(10 * MaxLoopLen)>>))

\* the nested-loop example has returned with the outer variable unresolved
\* in the value of pair
C7_Witness ==
    /\ pc = "returned" /\ Plan = <<NestedPairs>>
    /\ dsl_context["pair"] =
           WriteMessage(Msg(ErrorToken(<<"a">>) \o <<",", Numeral(10 * MaxLoopLen)>>))

LoopOver(step) == DictGet(step.loop, "over", NoneV)

\* the source of the Loop step names the loop variable a, bare or as a placeholder
OverNamesA(step) ==
    /\ step.loop.t = "dict"
    /\ LoopOver(step) \in { StrV(<<"a">>), StrV(<<"{", "a", "}">>) }

\* C8: a Loop step in the body of a loop over a, whose source names a while
\* a is bound to a list in the current scope, iterates over the elements of
\* that list.
C8_SourceSeesEnclosingVariable ==
    (/\ last.op = "loop" /\ OverNamesA(last.step)
     /\ "a" \in DOMAIN last.scope /\ last.scope["a"].t = "list") =>
        /\ last.outcome = "entered"
        /\ last.result = last.scope["a"]

\* an inner loop whose source names the enclosing variable, bound to a
\* non-empty list, was skipped
C8_Witness ==
    /\ last.op = "loop" /\ OverNamesA(last.step)
    /\ "a" \in DOMAIN last.scope /\ last.scope["a"].t = "list"
    /\ Len(last.scope["a"].v) > 0
    /\ last.outcome = "skipped"
    /\ stack = Advance(last.stack)

\* the steps of the plan's own sequence that were started
TopLevelStarted == { i \in 1..Len(trace) : trace[i].depth = 1 /\ trace[i].step # NoStep }

\* C9: execute_task never raises to its caller, and when it returns every
\* step of the plan's own sequence has been started.
C9_NoStepFailureIsFatal ==
    /\ pc # "raised"
    /\ pc = "returned" => Cardinality(TopLevelStarted) = Len(Plan)

\* execute_task raised out of a step with an ill-formed field while steps
\* of the plan were still to run
C9_Witness ==
    /\ pc = "raised"
    /\ last.outcome = "raise"
    /\ Cardinality(TopLevelStarted) < Len(Plan)

\* the Action failed by a dispatch miss, by an exception of the callable or
\* by a placeholder that did not resolve
FailedQuietly(e) ==
    /\ e.op = "action"
    /\ \/ ~Registered(e.step, step_registry)
       \/ IsExc(e.result)
       \/ HasErrorToken(e.args)

\* C10: a dispatch miss, an exception of the callable or a failed
\* placeholder in a loop body leaves the loop where it is (the next step of
\* the iteration is the one to run, nothing is raised); each new iteration
\* takes the next element of the source; and a loop is left only when all
\* its elements have had their iteration, or by an exception.
C10_LoopGoesOn ==
    /\ (FailedQuietly(last) /\ InLoop(last.stack)) =>
          /\ pc = "running"
          /\ stack = Advance(last.stack)
    /\ last.op = "iterate" =>
          /\ Top.idx = last.stack[Len(last.stack)].idx + 1
          /\ last.result = Top.items[Top.idx]
          /\ Top.pos = 1
    /\ \A n \in (Len(stack) + 1)..Len(last.stack) :
          IsLoopFrame(last.stack[n]) =>
              \/ last.outcome = "raise"
              \/ /\ last.op = "loop_exit" /\ n = Len(last.stack)
                 /\ last.stack[n].idx = Len(last.stack[n].items)

\* a loop has been left after as many iterations as its source has
\* elements, the callable having raised in its first iteration
C10_Witness ==
    /\ last.op = "loop_exit"
    /\ Len(last.stack[Len(last.stack)].items) = MaxLoopLen
    /\ \E i \in 1..Len(trace) :
          /\ trace[i].op = "action" /\ IsExc(trace[i].result)
          /\ InLoop(trace[i].stack)
          /\ trace[i].stack[Len(trace[i].stack)].idx = 1
    /\ Cardinality({ j \in 1..Len(trace) : trace[j].op = "iterate" }) = MaxLoopLen

\* the event is an Action whose registered callable raised
CallableRaised(e) ==
    /\ e.op = "action" /\ Registered(e.step, step_registry)
    /\ ~IsExc(e.args) /\ IsExc(e.result)

\* C11: when the registered callable of an Action step raises, the Context
\* after the step is the Context before it (output_var is neither created
\* nor overwritten), execute_task is still running and the next step of
\* the same sequence is the one to run.
C11_CallableErrorIsContained ==
    CallableRaised(last) =>
        /\ dsl_context = last.before
        /\ pc = "running"
        /\ stack = Advance(last.stack)

\* the callable of a step raised whose output_var was already a key of the
\* Context, and a plan in which that happened went on to write another key
C11_Witness ==
    /\ pc = "returned"
    /\ \E i \in 1..Len(trace) :
          /\ CallableRaised(trace[i])
          /\ OutputKey(trace[i].step) \in DOMAIN trace[i].before
          /\ After(i) = trace[i].before
          /\ \E j \in (i + 1)..Len(trace) : Wrote(trace[j])

\* the event is a Loop step whose source did not evaluate, or evaluated to
\* a value that is neither a list nor a range
UnusableSource(e) ==
    /\ e.op = "loop" /\ e.step.loop.t = "dict"
    /\ (IsExc(e.args) \/ e.args.t \notin {"list", "range"})

\* C12: a Loop whose source fails to evaluate, or evaluates to something
\* that is neither a list nor a range, starts no iteration (no call for its
\* nested steps is pushed), leaves the Context as it was, raises nothing,
\* and the step after the loop is the one to run.
C12_UnusableSourceSkipsLoop ==
    UnusableSource(last) =>
        /\ dsl_context = last.before
        /\ pc = "running"
        /\ stack = Advance(last.stack)

\* a plan has returned in which a loop with an unusable source and a body
\* was passed over with a Context that was not empty, and a later step of
\* the plan wrote
C12_Witness ==
    /\ pc = "returned"
    /\ \E i \in 1..Len(trace) :
          /\ UnusableSource(trace[i])
          /\ trace[i].before # EmptyDict
          /\ Len(trace[i].step.steps) > 0
          /\ \E j \in (i + 1)..Len(trace) : Wrote(trace[j]) /\ trace[j].depth = 1

\* the event is a Condition step whose expression, placeholders resolved,
\* raises when it is evaluated in the scope of the step
ConditionFails(e) ==
    /\ e.op = "condition" /\ ~IsExc(e.args)
    /\ IsExc(PyEval(e.args, e.scope))

\* C13: a Condition whose expression fails to evaluate is treated as
\* false: no call for its nested steps is pushed, the Context is as it
\* was, execute_task is still running and the next step of the same
\* sequence is the one to run.
C13_FailingConditionIsFalse ==
    ConditionFails(last) =>
        /\ last.outcome = "false"
        /\ dsl_context = last.before
        /\ pc = "running"
        /\ stack = Advance(last.stack)

\* a plan has returned in which a condition naming an unbound name, with
\* a nested step that writes, was met with a Context that was not empty
\* and a later step of the plan wrote
C13_Witness ==
    /\ pc = "returned"
    /\ \E i \in 1..Len(trace) :
          /\ ConditionFails(trace[i])
          /\ PyEval(trace[i].args, trace[i].scope) = Exc("NameError")
          /\ trace[i].before # EmptyDict
          /\ \E n \in 1..Len(trace[i].step.steps) :
                Truthy(Get(trace[i].step.steps[n], "output_var", NoneV))
          /\ \E j \in (i + 1)..Len(trace) : Wrote(trace[j]) /\ trace[j].depth = 1

\* the names the placeholders of the plans' messages stand for
PlaceholderNames == {"a", "b", "item", "last"}

\* the text "{x}" sep "{y}" of two placeholders that each name one variable
PairText(x, sep, y) == <<"{", x, "}">> \o sep \o <<"{", y, "}">>

\* what the placeholder {name} is replaced by: the string form of its
\* value in the scope, or the inline error token when the name is unbound
NameSpan(name, scope) ==
    IF name \in DOMAIN scope THEN PyStr(scope[name]) ELSE ErrorToken(<<name>>)

\* C14: in a message of two placeholders each placeholder is replaced on
\* its own: one that names an unbound variable by the inline error token
\* of its own expression, the other by the string form of its value, the
\* text between them kept; nothing is raised, the callable gets that text
\* and the next step of the same sequence is the one to run.
C14_FailedPlaceholderIsLocal ==
    \A x \in PlaceholderNames, y \in PlaceholderNames, sep \in {<<>>, <<",">>} :
        (/\ last.op = "action" /\ Registered(last.step, step_registry)
         /\ last.step.arguments = Msg(PairText(x, sep, y))) =>
            /\ last.args = Msg(NameSpan(x, last.scope) \o sep \o NameSpan(y, last.scope))
            /\ last.outcome = "ok"
            /\ last.result = Call(step_registry[KeyOf(last.step.function)].function,
                                  last.args, db)
            /\ pc = "running"
            /\ stack = Advance(last.stack)

\* a plan has returned in which the first placeholder of a message failed
\* and the second was replaced by its value, and a later step wrote
C14_Witness ==
    /\ pc = "returned"
    /\ \E i \in 1..Len(trace) :
          /\ trace[i].op = "action" /\ trace[i].step = SayPair
          /\ "a" \notin DOMAIN trace[i].scope /\ "b" \in DOMAIN trace[i].scope
          /\ trace[i].args =
                 Msg(ErrorToken(<<"a">>) \o <<",">> \o PyStr(trace[i].scope["b"]))
          /\ \E j \in (i + 1)..Len(trace) : Wrote(trace[j])

\* the step is an Action with an output_var and a mapping of arguments
IsWriter(step) ==
    /\ ~Truthy(Get(step, "loop", NoneV)) /\ ~Truthy(Get(step, "condition", NoneV))
    /\ Registered(step, step_registry)
    /\ Truthy(Get(step, "output_var", NoneV))
    /\ Get(step, "arguments", DictV(<<>>)).t = "dict"

\* the arguments of the step, resolved with nothing but the loop variable
\* bound to item
ArgsFor(step, variable, item) ==
    ResolveArguments(Get(step, "arguments", DictV(<<>>)),
                     Bind(EmptyDict, variable, item), EmptyDict)

\* the result of the step is computed from the loop variable alone: its
\* arguments resolve with only that variable bound and its callable returns
FromLoopVariable(step, variable, item) ==
    /\ IsWriter(step)
    /\ ~HasErrorToken(ArgsFor(step, variable, item))
    /\ ~IsExc(Call(step_registry[KeyOf(step.function)].function,
                   ArgsFor(step, variable, item), db))

\* the loop that has just returned
LeftLoop == last.stack[Len(last.stack)]

\* C15: when a Loop over a non-empty sequence returns, the output_var of
\* an Action of its body whose result is computed from the loop variable
\* (and whose key no later step of the body writes) holds the result for
\* the last element of the sequence.
C15_LastIterationWins ==
    (last.op = "loop_exit" /\ Len(LeftLoop.items) > 0) =>
        \A n \in 1..Len(LeftLoop.steps) :
            (/\ FromLoopVariable(LeftLoop.steps[n], LeftLoop.variable,
                                  LeftLoop.items[Len(LeftLoop.items)])
             /\ \A m \in (n + 1)..Len(LeftLoop.steps) :
                   OutputKey(LeftLoop.steps[m]) # OutputKey(LeftLoop.steps[n])) =>
                /\ OutputKey(LeftLoop.steps[n]) \in DOMAIN dsl_context
                /\ dsl_context[OutputKey(LeftLoop.steps[n])] =
                       Call(step_registry[KeyOf(LeftLoop.steps[n].function)].function,
                            ArgsFor(LeftLoop.steps[n], LeftLoop.variable,
                                    LeftLoop.items[Len(LeftLoop.items)]),
                            db)

\* a loop over [1, ..., MaxLoopLen] whose body writes last from "{item}"
\* has returned, and last holds the message of the last element
C15_Witness ==
    /\ last.op = "loop_exit"
    /\ LeftLoop.items = IntItems(1, MaxLoopLen)
    /\ LeftLoop.steps = <<SayItem>>
    /\ dsl_context["last"] = WriteMessage(Msg(<<Numeral(MaxLoopLen)>>))

\* the event is an Action of the plan's own sequence with a registered function
TopLevelAction(e) ==
    /\ e.op = "action" /\ Len(e.stack) = 1
    /\ Registered(e.step, step_registry)

\* C16: a top-level Action resolves its arguments against the Context as
\* the earlier steps left it: its scope is that Context, in which the
\* output_var of every earlier successful Action holds the result last
\* written to it, and the callable receives the text built from that
\* value (the first pending order after the fetch, the value of last after
\* a step that wrote it).
C16_LaterStepsSeeEarlierOutputs ==
    TopLevelAction(last) =>
        /\ last.scope = last.before
        /\ \A i \in 1..(Len(trace) - 1) :
              (Wrote(trace[i]) /\ NoWriteBetween(i, Len(trace), OutputKey(trace[i].step))) =>
                  /\ OutputKey(trace[i].step) \in DOMAIN last.scope
                  /\ last.scope[OutputKey(trace[i].step)] = trace[i].result
        /\ (/\ last.step = FirstOrder /\ "pending_orders" \in DOMAIN last.before
            /\ Len(last.before["pending_orders"].v) > 0) =>
              last.args = Msg(<<"first">> \o PyStr(last.before["pending_orders"].v[1]))
        /\ (last.step = ReadBack /\ "last" \in DOMAIN last.before) =>
              last.args = Msg(NameSpan("item", last.before) \o PyStr(last.before["last"]))

\* the step after the fetch of two pending orders was given the text of
\* the first of them
C16_Witness ==
    /\ TopLevelAction(last) /\ last.step = FirstOrder /\ last.outcome = "ok"
    /\ trace[Len(trace) - 1].step = FetchOrders /\ Wrote(trace[Len(trace) - 1])
    /\ Len(trace[Len(trace) - 1].result.v) = 2
    /\ last.args = Msg(<<"first">> \o PyStr(trace[Len(trace) - 1].result.v[1]))
    /\ dsl_context["message_result"] = WriteMessage(last.args)

\* the text pre "{len(x) * 2}" post
TwiceText(pre, x, post) == <<pre, "{", "len", "(", x, ")", "*", "2", "}", post>>

\* C17: the placeholder {len(x) * 2} in a message, with x bound in the
\* scope to a sequence of n elements, is replaced by the decimal text of
\* 2n and the text around it is kept.
C17_LengthTimesTwo ==
    \A x \in {"pending_orders", "a"}, pre \in {"Twice", "n"}, post \in {".", "!"} :
        (/\ last.op = "action" /\ Registered(last.step, step_registry)
         /\ last.step.arguments = Msg(TwiceText(pre, x, post))
         /\ x \in DOMAIN last.scope /\ last.scope[x].t = "list") =>
            /\ last.args = Msg(<<pre, Numeral(2 * Len(last.scope[x].v)), post>>)
            /\ last.result = Call(step_registry[KeyOf(last.step.function)].function,
                                  last.args, db)

\* in a loop body the placeholder was resolved with x bound to a list of
\* MaxLoopLen elements, and the result was stored
C17_Witness ==
    /\ last.op = "action" /\ last.step = TwiceLen
    /\ Len(last.scope["a"].v) = MaxLoopLen
    /\ last.args = Msg(<<"n", Numeral(2 * MaxLoopLen), "!">>)
    /\ dsl_context["r"] = WriteMessage(last.args)

\* the step carries the key
Carries(step, key) == step[key] # Missing

\* C18: a step is run by the shape its keys name: as a Loop only when it
\* carries `loop`, as a Condition only when it carries `condition` and no
\* `loop`, as an Action only when it carries neither; and a call for the
\* nested steps of a step that carries `condition` is pushed only by a
\* Condition whose predicate evaluated to true.
C18_OneShapePerStep ==
    /\ last.op = "loop" => Carries(last.step, "loop")
    /\ last.op = "condition" =>
          Carries(last.step, "condition") /\ ~Carries(last.step, "loop")
    /\ last.op = "action" =>
          ~Carries(last.step, "loop") /\ ~Carries(last.step, "condition")
    /\ (/\ last.op \in {"loop", "condition"} /\ Carries(last.step, "condition")
        /\ Len(stack) > Len(last.stack)) =>
          /\ last.op = "condition"
          /\ ResolveCondition(last.args, last.scope, last.before)

\* the nested step of a step that carries a loop and a false condition has
\* run and written
C18_Witness ==
    /\ Wrote(last)
    /\ InLoop(last.stack)
    /\ \E i \in 1..Len(trace) :
          /\ trace[i].op = "loop" /\ trace[i].outcome = "entered"
          /\ trace[i].step = LoopAndCondition
          /\ ~ResolveCondition(trace[i].step.condition, trace[i].scope, trace[i].before)

\* the plan of the literal-sequence example: item over the list
\* [1, ..., MaxLoopLen] given as a value, the body writing last from "{item}"
LiteralLoop == LoopStep("item", ListV(IntItems(1, MaxLoopLen)), <<SayItem>>)

\* the event is a Loop step whose `over` is a list value
LiteralSource(e) ==
    /\ e.op = "loop" /\ e.step.loop.t = "dict"
    /\ LoopOver(e.step).t = "list"

\* C19: a Loop whose `over` is a literal sequence is entered with the
\* elements of that sequence, in order, as the elements of its
\* iterations, and the literal-sequence example ends with Context[last]
\* holding the value written for the last element.
C19_LiteralSequenceIterates ==
    /\ LiteralSource(last) =>
          /\ last.outcome = "entered"
          /\ last.result = LoopOver(last.step)
    /\ (pc = "returned" /\ Plan = <<LiteralLoop>>) =>
          /\ "last" \in DOMAIN dsl_context
          /\ dsl_context["last"] = WriteMessage(Msg(<<Numeral(MaxLoopLen)>>))

\* the literal-sequence example has returned with an empty Context, its
\* loop passed over because the source did not evaluate
C19_Witness ==
    /\ pc = "returned" /\ Plan = <<LiteralLoop>>
    /\ dsl_context = EmptyDict
    /\ \E i \in 1..Len(trace) :
          /\ LiteralSource(trace[i]) /\ trace[i].outcome = "skipped"
          /\ IsExc(trace[i].args)

\* the innermost loop among the calls st
InnermostLoop(st) ==
    st[CHOOSE n \in 1..Len(st) :
           /\ IsLoopFrame(st[n])
           /\ \A m \in (n + 1)..Len(st) : ~IsLoopFrame(st[m])]

\* the element of the iteration the loop f is in
CurrentItem(f) == f.items[f.idx]

\* the conditions "a > 1" and "{a} > 1"
AboveOne == { StrV(<<"a", ">", "1">>), StrV(<<"{", "a", "}", ">", "1">>) }

\* the event is a nested step of a Condition that is inside a loop body
GuardedInBody(e) ==
    /\ e.op = "action" /\ InLoop(e.stack)
    /\ e.stack[Len(e.stack)].kind = "cond"

\* C20: a Condition step inside a loop body evaluates its predicate with
\* the loop variable bound to the element of the current iteration (so the
\* predicates "a > 1" and "{a} > 1" of a loop over integers let the nested
\* steps run exactly for the elements above 1), and an Action it guards
\* resolves with the same binding: its arguments, when they are computed
\* from the loop variable, are those for the current element.
C20_ConditionSeesLoopVariable ==
    /\ (last.op = "condition" /\ InLoop(last.stack)) =>
          /\ InnermostLoop(last.stack).variable \in DOMAIN last.scope
          /\ last.scope[InnermostLoop(last.stack).variable] =
                 CurrentItem(InnermostLoop(last.stack))
          /\ (/\ last.step.condition \in AboveOne
              /\ InnermostLoop(last.stack).variable = "a"
              /\ CurrentItem(InnermostLoop(last.stack)).t = "int") =>
                 (Len(stack) > Len(last.stack)
                    <=> CurrentItem(InnermostLoop(last.stack)).v > 1)
    /\ GuardedInBody(last) =>
          /\ InnermostLoop(last.stack).variable \in DOMAIN last.scope
          /\ last.scope[InnermostLoop(last.stack).variable] =
                 CurrentItem(InnermostLoop(last.stack))
          /\ FromLoopVariable(last.step, InnermostLoop(last.stack).variable,
                              CurrentItem(InnermostLoop(last.stack))) =>
                 last.args = ArgsFor(last.step, InnermostLoop(last.stack).variable,
                                     CurrentItem(InnermostLoop(last.stack)))

\* in a loop over [1, ..., MaxLoopLen] with variable a, the condition
\* "{a} > 1" was false for the element 1 and true for a later element, and
\* the Action it guards wrote the message of that element
C20_Witness ==
    /\ GuardedInBody(last) /\ Wrote(last)
    /\ last.step = SayA
    /\ InnermostLoop(last.stack).idx > 1
    /\ dsl_context["r"] =
           WriteMessage(Msg(<<Numeral(InnermostLoop(last.stack).idx)>>))
    /\ \E i, j \in 1..Len(trace) :
          /\ i < j
          /\ trace[i].op = "condition" /\ trace[i].outcome = "false"
          /\ trace[i].step.condition = StrV(<<"{", "a", "}", ">", "1">>)
          /\ trace[j].op = "condition" /\ trace[j].outcome = "true"
          /\ trace[j].step = trace[i].step

MaxTextLen == 3

\* the texts of at most MaxTextLen tokens over the braces and a name
Texts == UNION { [1..n -> {"{", "}", "a"}] : n \in 0..MaxTextLen }

\* the text holds a span: an opening brace, one token or more that are no
\* closing brace, and a closing brace
HasSpan(text) ==
    \E i, j \in 1..Len(text) :
        /\ text[i] = "{" /\ text[j] = "}" /\ j >= i + 2
        /\ \A k \in (i + 1)..(j - 1) : text[k] # "}"

\* the scope the Action just done was resolved against
Scopes == {last.scope}

\* the values of the arguments of a step that are texts with no span are
\* the same in the resolved arguments
PlainArgumentsKept(step, args) ==
    \A n \in 1..Len(step.arguments.v) :
        (step.arguments.v[n][2].t = "str" /\ ~HasSpan(step.arguments.v[n][2].v)) =>
            args.v[n] = step.arguments.v[n]

\* C21: interpolating a text with no {...} span gives the text itself, for
\* every text of the bounded set and every scope an Action of the first
\* plan of an executor meets, both as
\* the whole argument and as a value of an argument mapping; the arguments an
\* Action was called with hold every span-free text of its step as it was
\* written; and an Action with no output_var, whatever it interpolates,
\* leaves the Context as it was.
C21_PlainTextIsKept ==
    /\ (last.op = "action" /\ Cardinality(Calls) = 1) =>
          \A text \in Texts : \A scope \in Scopes :
             ~HasSpan(text) =>
                /\ ResolvePlaceholders(StrV(text), scope, dsl_context) = StrV(text)
                /\ ResolveArguments(Msg(text), scope, dsl_context) = Msg(text)
    /\ (last.op = "action" /\ Get(last.step, "arguments", NoneV).t = "dict"
        /\ last.args.t = "dict") =>
          PlainArgumentsKept(last.step, last.args)
    /\ (last.op = "action" /\ ~Truthy(Get(last.step, "output_var", NoneV))) =>
          dsl_context = last.before

\* the message with braces and no span was interpolated against a
\* non-empty scope, came out as written and was stored
C21_Witness ==
    /\ Wrote(last) /\ last.step = Braces
    /\ last.scope # EmptyDict
    /\ last.args = Braces.arguments
    /\ dsl_context["r"] = WriteMessage(Braces.arguments)

\* the event starts a step
StartsStep(e) == e.op \in {"action", "loop", "condition"}

\* every sequence of the calls st has been run to its end
Exhausted(st) == \A n \in 1..Len(st) : st[n].pos > Len(st[n].steps)

\* C22: a call of execute_task that has ended has returned, never raised
\* (so a call that always takes its next step eventually returns); it
\* returns exactly when the step sequence, nested sequences included, is
\* exhausted (it returns from the plan's own sequence run to its end, and
\* while it runs there is a sequence with a step to run or to leave); and
\* no step is started twice at the same place of the same iteration.
C22_ReturnsWhenExhausted ==
    /\ (trace # <<>> /\ stack = <<>>) => pc = "returned"
    /\ pc = "returned" =>
          /\ last.op = "return"
          /\ Len(last.stack) = 1 /\ Exhausted(last.stack)
    /\ pc = "running" => Len(stack) > 0
    /\ StartsStep(last) =>
          \A i \in 1..(Len(trace) - 1) :
              StartsStep(trace[i]) => trace[i].stack # last.stack

\* execute_task has ended by raising with steps of the plan's own sequence
\* never started
C22_Witness ==
    /\ pc = "raised" /\ stack = <<>>
    /\ ~Exhausted(Advance(last.stack))

\* the domain module of the application identifier cannot be located, or
\* it has no <APP_NAME>API class
NoDomain(app) == app \notin AppModules \/ ApiAttrs(app) = NoClass

\* C24: once DSLExecutor(app_name) has been called for an application
\* identifier with no domain module or no <APP_NAME>API class, there is
\* an executor (the construction did not raise), its registry holds
\* exactly the core entries, and a plan's call of the core capability
\* message.write_message is dispatched to it.
C24_CoreOnlySessionBuilds ==
    (pc # "new" /\ NoDomain(app_name)) =>
        /\ pc # "unbuilt"
        /\ step_registry = RegisterCoreSteps(EmptyDict)
        /\ \A k \in DOMAIN step_registry : step_registry[k].source = "core"
        /\ (last.op = "action" /\ last.step = Hello) =>
               /\ Wrote(last)
               /\ dsl_context["r"] = WriteMessage(Msg(<<"hi">>))

\* DSLExecutor("nosuch") raised: nothing of the application exists, so the
\* database file could not be opened, and no registry was built
C24_Witness ==
    /\ pc = "unbuilt" /\ app_name = "nosuch"
    /\ app_name \notin AppModules
    /\ step_registry = EmptyDict

\* the keys under which the methods of the groups of an aggregate are registered
Exposed(attrs) ==
    UNION { { QualifiedName(attrs[i][1], attrs[i][2][j]) : j \in 1..Len(attrs[i][2]) } :
            i \in 1..Len(attrs) }

\* the keys both the core aggregate and the domain aggregate of app expose
Collisions(app) ==
    IF NoDomain(app) THEN {} ELSE Exposed(CoreAttrs) \cap Exposed(ApiAttrs(app))

\* C23: in the registry of a session every key is held once (the registry
\* has one entry for each key the core or the domain aggregate exposes),
\* a key both expose holds the domain registration, and an Action that
\* names such a key is given the result of the domain callable.
C23_LastRegistrationWins ==
    (pc \notin {"new", "unbuilt"} /\ ~NoDomain(app_name)) =>
        /\ DOMAIN step_registry = Exposed(CoreAttrs) \cup Exposed(ApiAttrs(app_name))
        /\ \A k \in Collisions(app_name) :
              /\ step_registry[k].source = "app"
              /\ step_registry[k].function[1] = "app"
        /\ (/\ last.op = "action" /\ last.step = Hello
            /\ "message.write_message" \in Collisions(app_name)) =>
               /\ Wrote(last)
               /\ dsl_context["r"] = CrmWriteMessage(Msg(<<"hi">>))

\* with the crm module, whose group Message collides with the core group
\* message, a plan's call of message.write_message was answered by the
\* domain callable
C23_Witness ==
    /\ app_name = "crm"
    /\ Collisions(app_name) = {"message.__init__", "message.write_message"}
    /\ last.op = "action" /\ last.step = Hello
    /\ dsl_context["r"] = CrmWriteMessage(Msg(<<"hi">>))
    /\ dsl_context["r"] # WriteMessage(Msg(<<"hi">>))

\* the method names that are not public: they begin with an underscore
NonPublic == {"__init__"}

\* the keys of the public methods of the groups of an aggregate
PublicKeys(attrs) ==
    UNION { { QualifiedName(attrs[i][1], attrs[i][2][j]) :
                j \in { n \in 1..Len(attrs[i][2]) : attrs[i][2][n] \notin NonPublic } } :
            i \in 1..Len(attrs) }

\* the keys of the public methods of the core and the domain aggregate
SessionKeys(app) ==
    PublicKeys(CoreAttrs) \cup (IF NoDomain(app) THEN {} ELSE PublicKeys(ApiAttrs(app)))

\* C27: the registry of a session holds one entry for each public method
\* of each group of the core and domain aggregates and nothing else, so an
\* Action that names a constructor finds no entry, calls nothing and
\* leaves the Context as it was.
C27_OnlyPublicMethods ==
    pc \notin {"new", "unbuilt"} =>
        /\ DOMAIN step_registry = SessionKeys(app_name)
        /\ (last.op = "action" /\ last.step = CallInit) =>
               /\ ~Registered(last.step, step_registry)
               /\ dsl_context = last.before

\* a plan's step named message.__init__, the constructor was called with
\* the plan's arguments and what it returned was stored
C27_Witness ==
    /\ last.op = "action" /\ last.step = CallInit
    /\ Registered(last.step, step_registry)
    /\ "message.__init__" \notin SessionKeys(app_name)
    /\ Wrote(last)
    /\ dsl_context["r"] = NoneV

\* name k is the variable of a loop of the calls st that is in an iteration
IsLoopVariable(st, k) ==
    \E n \in 1..Len(st) : IsLoopFrame(st[n]) /\ st[n].idx >= 1 /\ st[n].variable = k

\* the event before the last one
Previous == trace[Len(trace) - 1]

\* the last two events are a write of `last` and the read of it that
\* follows in the same body
ReadsAfterWrite ==
    /\ Len(trace) >= 2 /\ last.depth > 1
    /\ last.op = "action" /\ last.step = ReadLast
    /\ Wrote(Previous) /\ Previous.step = SayItem
    /\ Previous.depth = last.depth

\* C25: a step of a loop body or condition body resolves every name that
\* is no loop variable to the value the Context has for it when the step
\* runs; so the step that reads `last` right after a step of the same
\* body wrote it is given the text of the value just written.
C25_BodyReadsCurrentContext ==
    /\ (last.op = "action" /\ last.depth > 1) =>
          \A k \in DOMAIN last.before :
              ~IsLoopVariable(last.stack, k) =>
                  k \in DOMAIN last.scope /\ last.scope[k] = last.before[k]
    /\ ReadsAfterWrite => last.args = Msg(PyStr(Previous.result))

\* in a loop body the step after a write of `last` read the value `last`
\* had when the iteration began, not the one just written
C25_Witness ==
    /\ ReadsAfterWrite /\ InLoop(last.stack)
    /\ "last" \in DOMAIN last.scope
    /\ last.before["last"] = Previous.result
    /\ last.scope["last"] # last.before["last"]
    /\ last.args = Msg(PyStr(last.scope["last"]))

\* Where a step is in the run: for each call of st, from the outermost, the
\* iteration it is in and the index of its step in progress (the step to
\* run for the innermost call, the step that made the next call for the others).
Place(st) ==
    [n \in 1..Len(st) |->
        <<st[n].idx, IF n = Len(st) THEN st[n].pos ELSE st[n].pos - 1>>]

\* depth-first order of places: p comes before q
Before(p, q) ==
    \E n \in 1..Len(q) :
        /\ n <= Len(p) + 1
        /\ \A m \in 1..(n - 1) : p[m] = q[m]
        /\ \/ n = Len(p) + 1
           \/ /\ n <= Len(p)
              /\ \/ p[n][1] < q[n][1]
                 \/ p[n][1] = q[n][1] /\ p[n][2] < q[n][2]

\* the n-th element of a sequence a loop iterates over
ElementOf(iterable, n) == IF iterable.t = "range" THEN IntV(n - 1) ELSE iterable.v[n]

\* C26: steps are started one after the other in depth-first plan order:
\* every step of the same execute_task started earlier comes before the step just started (the
\* steps of a sequence in document order, every step of an iteration
\* before the steps of the next one, a nested step after the step that
\* holds it and before the step that follows it); a loop visits the
\* elements of its source in the order of the source, one iteration at a
\* time; and a new iteration starts only when the body of the one before
\* has run to its end.
C26_DepthFirstOrder ==
    /\ StartsStep(last) =>
          \A i \in (ThisCall + 1)..(Len(trace) - 1) :
              StartsStep(trace[i]) => Before(Place(trace[i].stack), Place(last.stack))
    /\ (last.op = "loop" /\ Len(stack) > Len(last.stack)) =>
          /\ Len(Top.items) = Len(Items(last.args))
          /\ \A n \in 1..Len(Top.items) : Top.items[n] = ElementOf(last.args, n)
    /\ last.op = "iterate" =>
          /\ Top.idx = last.stack[Len(last.stack)].idx + 1
          /\ last.result = Top.items[Top.idx]
          /\ Top.ac[Top.variable] = Top.items[Top.idx]
          /\ Exhausted(<<last.stack[Len(last.stack)]>>)
          /\ Top.pos = 1

\* the second iteration of a loop over [1, ..., MaxLoopLen] with a body of
\* two steps has started its second step, after both steps of the first
\* iteration
C26_Witness ==
    /\ last.op = "action" /\ InLoop(last.stack)
    /\ InnermostLoop(last.stack).idx = 2
    /\ InnermostLoop(last.stack).items = IntItems(1, MaxLoopLen)
    /\ last.stack[Len(last.stack)].pos = 2
    /\ Cardinality({ i \in 1..Len(trace) :
                       /\ trace[i].op = "action"
                       /\ Len(trace[i].stack) = Len(last.stack)
                       /\ trace[i].stack[Len(last.stack)].idx = 1 }) = 2

\* an exception escapes the step of the event: its loop is no mapping, or
\* its condition or the arguments of its registered function are neither
\* a text nor a mapping
Escapes(e) ==
    \/ /\ e.op = "loop" /\ Get(e.step, "loop", NoneV).t # "dict"
    \/ /\ e.op = "condition"
       /\ Get(e.step, "condition", NoneV).t \notin {"str", "dict"}
    \/ /\ e.op = "action" /\ Registered(e.step, step_registry)
       /\ Get(e.step, "arguments", DictV(<<>>)).t \notin {"str", "dict"}

\* the index in st of the innermost loop
InnermostLoopAt(st) ==
    CHOOSE n \in 1..Len(st) :
        /\ IsLoopFrame(st[n])
        /\ \A m \in (n + 1)..Len(st) : ~IsLoopFrame(st[m])

\* C28: an exception that escapes a step inside a loop body ends the
\* innermost enclosing loop: the calls left are those that enclose that
\* loop, each as it was (so the rest of the iteration and the remaining
\* iterations are not run, and the step to run is the one after the
\* loop); the Context keeps every write made; execute_task goes on.
C28_InnermostLoopCatches ==
    (Escapes(last) /\ InLoop(last.stack)) =>
        /\ stack = SubSeq(last.stack, 1, InnermostLoopAt(last.stack) - 1)
        /\ Len(stack) >= 1
        /\ Top.steps[Top.pos - 1].loop # Missing
        /\ dsl_context = last.before
        /\ pc = "running"

\* the plan of the loop with the ill-formed step has returned: the write
\* of the first iteration is kept, the step after the ill-formed one never
\* ran, no second iteration ran, and the step after the loop did
C28_Witness ==
    /\ pc = "returned" /\ Plan = <<AbortedLoop, ReadBack>>
    /\ dsl_context["last"] = WriteMessage(Msg(<<"1">>))
    /\ "r" \notin DOMAIN dsl_context
    /\ "seen" \in DOMAIN dsl_context
    /\ \E i \in 1..Len(trace) :
          /\ Escapes(trace[i]) /\ InnermostLoop(trace[i].stack).idx = 1
          /\ Len(InnermostLoop(trace[i].stack).items) > 1
    /\ Cardinality({ i \in 1..Len(trace) : trace[i].op = "iterate" }) = 1

\* some placeholder of a text argument of the step does not evaluate in
\* the scope
PlaceholderFails(step, scope) ==
    /\ Get(step, "arguments", NoneV).t = "dict"
    /\ \E n \in 1..Len(step.arguments.v) :
          /\ step.arguments.v[n][2].t = "str"
          /\ \E i \in 1..Len(step.arguments.v[n][2].v) :
                /\ MatchEnd(step.arguments.v[n][2].v, i) # 0
                /\ IsExc(Eval(SubSeq(step.arguments.v[n][2].v, i + 1,
                                      MatchEnd(step.arguments.v[n][2].v, i) - 1),
                               scope))

\* C29: an Action with a registered function and a placeholder that fails
\* to resolve is still carried out: the callable is called with the
\* arguments that hold the error token (for a message that is one
\* placeholder naming an unbound variable, the error token of that name is
\* the whole message), and when it returns, its result is stored under
\* output_var.
C29_CalledWithErrorToken ==
    (/\ last.op = "action" /\ Registered(last.step, step_registry)
     /\ PlaceholderFails(last.step, last.scope)) =>
        /\ HasErrorToken(last.args)
        /\ last.result =
               Call(step_registry[KeyOf(last.step.function)].function, last.args, db)
        /\ \A x \in PlaceholderNames :
              (last.step.arguments = Msg(<<"{", x, "}">>) /\ x \notin DOMAIN last.scope) =>
                  last.args = Msg(ErrorToken(<<x>>))
        /\ (~IsExc(last.result) /\ Truthy(Get(last.step, "output_var", NoneV))) =>
              /\ OutputKey(last.step) \in DOMAIN dsl_context
              /\ dsl_context[OutputKey(last.step)] = last.result
        /\ pc = "running"

\* the step that reads {last} ran with no `last` in its scope: the
\* callable got the error token as its message and the result was stored
C29_Witness ==
    /\ last.op = "action" /\ last.step = ReadLast
    /\ "last" \notin DOMAIN last.scope
    /\ last.args = Msg(ErrorToken(<<"last">>))
    /\ dsl_context["seen"] = WriteMessage(Msg(ErrorToken(<<"last">>)))

\* the event bound a key in dsl_context, and the key it bound
Bound(e) == Wrote(e) \/ e.op = "seed"

BoundKey(e) == IF e.op = "seed" THEN KeyOf(e.args) ELSE OutputKey(e.step)

\* C30: the Context belongs to the executor, not to one execute_task call:
\* execute_task starts with the Context as the caller and the earlier calls
\* left it and no step takes a key away; every key bound before the call
\* started is bound in the scope of every Action of the call, and a
\* top-level Action that reads such a key is called with its value; and
\* after any sequence of calls the Context holds exactly the keys written so
\* far, each with the value most recently written to it.
C30_ContextOutlivesCalls ==
    /\ last.op = "execute_task" => dsl_context = last.before
    /\ DOMAIN last.before \subseteq DOMAIN dsl_context
    /\ (last.op = "action" /\ Registered(last.step, step_registry)) =>
          DOMAIN trace[ThisCall].before \subseteq DOMAIN last.scope
    /\ (/\ TopLevelAction(last) /\ last.step = ReadLast
        /\ "last" \in DOMAIN trace[ThisCall].before) =>
          last.args = Msg(PyStr(last.before["last"]))
    /\ DOMAIN dsl_context = { BoundKey(trace[i]) : i \in { j \in 1..Len(trace) : Bound(trace[j]) } }
    /\ \A i \in 1..Len(trace) :
          (Bound(trace[i]) /\ NoWriteBetween(i, Len(trace) + 1, BoundKey(trace[i]))) =>
              dsl_context[BoundKey(trace[i])] = trace[i].result

\* the second call on an executor read the value of last that the first
\* call left and wrote it over the value of seen that the first call left
C30_Witness ==
    /\ pc = "returned" /\ Cardinality(Calls) = 2
    /\ \A i \in 1..Len(trace) : trace[i].op # "seed"
    /\ Wrote(trace[Len(trace) - 1]) /\ trace[Len(trace) - 1].step = ReadLast
    /\ "last" \in DOMAIN trace[ThisCall].before
    /\ "seen" \in DOMAIN trace[ThisCall].before
    /\ trace[ThisCall].before["seen"] # dsl_context["seen"]
    /\ trace[Len(trace) - 1].args = Msg(PyStr(trace[ThisCall].before["last"]))
    /\ dsl_context["last"] = trace[ThisCall].before["last"]

====
